---- MODULE Spec2Model ----
(***************************************************************************)
(* A model of zchunk-rs: the varint codec (src/src/types.rs), the          *)
(* content-defined chunker (src/src/chunker.rs) and the container format   *)
(* with its encoder, decoder and sync (src/src/format.rs).                 *)
(*                                                                         *)
(* Bytes are the integers 0..255 and files are sequences of bytes.  A u64  *)
(* is the sequence of its 8 bytes, so that the full width of the type is   *)
(* kept.                                                                   *)
(***************************************************************************)
EXTENDS Integers, Sequences, FiniteSets, TLC

VARIABLES
    \* varint machine
    vn,      \* the u64 given to VariantInt::from
    vbytes,  \* the bytes given to from_bytes / held by the stream that is read
    vsrc,    \* how `va` was made: "none", "from", "from_bytes", "read", "read_err"
    va,      \* a VariantInt: its byte vector
    vb,      \* a second VariantInt, read from a stream
    vlast,   \* the last operation on va/vb and its result
    \* chunker machine
    cinput,  \* the bytes the reader holds
    ck,      \* a Chunker over a reader of cinput, and the items it has yielded
    ck2,     \* a second Chunker over another reader of the same bytes
    \* encoder and decoder machines
    einput,  \* the bytes the encoder's reader holds
    enc,     \* the Encoder: header, temp spool and its position, reader position
    ecalls,  \* the calls made on the encoder and what they returned
    fout,    \* the bytes of the writer given to compress_to / sync_to
    fsrc,    \* the bytes of the source file
    fcache,  \* the bytes of the cache file
    dsrc,    \* the Decoder over fsrc on which sync_to is called
    dcache,  \* the Decoder over fcache
    sync,    \* the result of sync_to
    dout,    \* a Decoder over fout
    dref,    \* a Decoder over fsrc, used to decode it
    fres,    \* the last call on a part of a header and what it returned
    overflow_checks  \* the build panics on integer overflow (debug) or wraps

varintVars == <<vn, vbytes, vsrc, va, vb, vlast>>

chunkerVars == <<cinput, ck, ck2>>

formatVars ==
    <<einput, enc, ecalls, fout, fsrc, fcache, dsrc, dcache, sync, dout, dref, fres,
      overflow_checks>>

vars == <<vn, vbytes, vsrc, va, vb, vlast, cinput, ck, ck2,
          einput, enc, ecalls, fout, fsrc, fcache, dsrc, dcache, sync, dout, dref,
          fres, overflow_checks>>

----------------------------------------------------------------------------
(* Bounds of the model.                                                    *)

\* the u64 inputs lie within this distance of a power of two
ProbeRadius == 1
\* byte vectors given to from_bytes / read_variant_int carry up to this many
\* leading zero bytes before their last byte
MaxPad == 10
\* the chunker is built by Chunker::new(ChunkerMin, ChunkerMax, 2^MaskBits - 1, reader);
\* Chunker::default uses 8192, 131072 and 2^15 - 1
ChunkerMin == 3
ChunkerMax == 6
MaskBits == 1
\* CHUNKER_WINDOW_SIZE, 48 in the source, scaled with the chunk sizes
WindowSize == 2
\* the width of the rolling hash, 32 in the source
HashBits == 8
\* the reader holds at most this many bytes
MaxInputLen == 6
\* the same, when two chunkers read the input
MaxPairInputLen == 5
\* a reader fails with an error other than EOF at most this many times
MaxIoErrors == 1
\* next() is called at most this many times after the end of the sequence
MaxEndCalls == 1
\* the encoder's reader holds at most this many bytes
MaxCodecInputLen == 4
\* prepare_chunks and compress_to are called at most this many times in all
MaxEncoderCalls == 3
\* decompress_to is called at most this many times on a decoder
MaxRuns == 1
\* and at most this many times on the decoder of the file the encoder emitted
MaxCodecRuns == 2
\* the source and cache files hold at most this many data chunks
MaxSyncChunks == 2

----------------------------------------------------------------------------
(* Bytes and 64-bit words.                                                 *)

U64Bits == 64

BitIdx == 0 .. (U64Bits - 1)

\* 2^k for k in 0..30
Pow2(k) ==
    <<1, 2, 4, 8, 16, 32, 64, 128, 256, 512, 1024, 2048, 4096, 8192, 16384,
      32768, 65536, 131072, 262144, 524288, 1048576, 2097152, 4194304,
      8388608, 16777216, 33554432, 67108864, 134217728, 268435456,
      536870912, 1073741824>>[k + 1]

\* bit j of a small natural number
BitOf(v, j) == (v \div Pow2(j)) % 2

\* b & 0x7f, b | 0x80 and (b & 0x80 != 0) on a byte
ByteAnd7f(b) == b % 128
ByteOr80(b) == IF b >= 128 THEN b ELSE b + 128
ByteHasFlag(b) == b >= 128

\* a u64 is the sequence of its 8 bytes, least significant first

\* bit i of a u64
Bit(num, i) == BitOf(num[(i \div 8) + 1], i % 8)

\* byte k of the u64 whose bit i is bits[i + 1]
PackByte(bits, k) ==
    bits[8 * k + 1] + 2 * bits[8 * k + 2] + 4 * bits[8 * k + 3]
    + 8 * bits[8 * k + 4] + 16 * bits[8 * k + 5] + 32 * bits[8 * k + 6]
    + 64 * bits[8 * k + 7] + 128 * bits[8 * k + 8]

\* the u64 whose bit i is bits[i + 1]
Pack(bits) ==
    <<PackByte(bits, 0), PackByte(bits, 1), PackByte(bits, 2), PackByte(bits, 3),
      PackByte(bits, 4), PackByte(bits, 5), PackByte(bits, 6), PackByte(bits, 7)>>

U64Zero == <<0, 0, 0, 0, 0, 0, 0, 0>>

\* the u64 with exactly the bits of S set
U64OfBits(S) == Pack([k \in 1 .. U64Bits |-> IF (k - 1) \in S THEN 1 ELSE 0])

\* a natural below 2^30 as a u64
U64FromNat(v) ==
    <<v % 256, (v \div 256) % 256, (v \div 65536) % 256, (v \div 16777216) % 256,
      0, 0, 0, 0>>

\* num >= 0x80
U64Ge128(num) == num[1] >= 128 \/ \E k \in 2 .. Len(num) : num[k] # 0

\* num as u8
U64AsU8(num) == num[1]

\* byte k of num, 0 past the most significant byte
ByteAt(num, k) == IF k <= Len(num) THEN num[k] ELSE 0

\* num >> 7: every byte takes its top bit and the low seven of the next byte
U64Shr7(num) ==
    SubSeq([k \in 1 .. 8 |-> (num[k] \div 128) + 2 * (ByteAt(num, k + 1) % 128)], 1, 8)

RECURSIVE ByteOr(_, _)
\* a | b on bytes
ByteOr(a, b) ==
    IF a = 0 THEN b
    ELSE IF b = 0 THEN a
    ELSE (IF a % 2 = 1 \/ b % 2 = 1 THEN 1 ELSE 0) + 2 * ByteOr(a \div 2, b \div 2)

\* num | ((v as u64) << s) for a byte v and a shift s < 64; bits shifted past
\* bit 63 are dropped
U64OrShl(num, v, s) ==
    LET shifted(w, at) ==
            SubSeq([k \in 1 .. 8 |->
                        IF k = at THEN ByteOr(num[k], w % 256)
                        ELSE IF k = at + 1 THEN ByteOr(num[k], w \div 256)
                        ELSE num[k]], 1, 8)
    IN  shifted(v * Pow2(s % 8), (s \div 8) + 1)

----------------------------------------------------------------------------
(* VariantInt (src/src/types.rs).                                          *)

Ok(v) == [ok |-> TRUE, val |-> v, err |-> "none"]
Err(e) == [ok |-> FALSE, val |-> <<>>, err |-> e]

RECURSIVE FromLoopOffByOne(_, _)
FromLoopOffByOne(num, bytes) ==
    IF U64Ge128(num) /\ num # U64FromNat(128)
    THEN FromLoopOffByOne(U64Shr7(num), Append(bytes, ByteAnd7f(U64AsU8(num))))
    ELSE Append(bytes, ByteOr80(U64AsU8(num)))

\* mutant of VarintFrom: the loop test is `num > 0x80`
VarintFromOffByOne(value) == FromLoopOffByOne(value, <<>>)

RECURSIVE FromLoop(_, _)
FromLoop(num, bytes) ==
    IF U64Ge128(num)
    THEN FromLoop(U64Shr7(num), Append(bytes, ByteAnd7f(U64AsU8(num))))
    ELSE Append(bytes, ByteOr80(U64AsU8(num)))

\* impl From<u64> for VariantInt
VarintFrom(value) == FromLoop(value, <<>>)

\* VariantInt::from_bytes
VarintFromBytes(b) == b

\* VariantInt::byte_size
VarintByteSize(v) == Len(v)

RECURSIVE ToU64Loop(_, _, _)
ToU64Loop(bs, i, num) ==
    IF i > Len(bs) THEN Ok(num)
    ELSE LET byte == bs[i]
             num2 == U64OrShl(num, ByteAnd7f(byte), 7 * (i - 1))
         IN  IF ByteHasFlag(byte) THEN Ok(num2) ELSE ToU64Loop(bs, i + 1, num2)

\* VariantInt::to_u64
VarintToU64(v) ==
    IF Len(v) > 10 THEN Err("VariantInt has greater than 10 bytes")
    ELSE ToU64Loop(v, 1, U64Zero)

\* VariantInt::write_to: the bytes appended to the writer
VarintWriteTo(v) == v

\* derive(PartialEq) on VariantInt(Vec<u8>): equality of the byte vectors
VarintEq(a, b) == a = b

RECURSIVE ReadVarintLoop(_, _, _)
ReadVarintLoop(stream, pos, bs) ==
    IF pos >= Len(stream)
    THEN [ok |-> FALSE, val |-> bs, err |-> "UnexpectedEof", pos |-> Len(stream)]
    ELSE LET b == stream[pos + 1]
         IN  IF ByteHasFlag(b)
             THEN [ok |-> TRUE, val |-> Append(bs, b), err |-> "none", pos |-> pos + 1]
             ELSE ReadVarintLoop(stream, pos + 1, Append(bs, b))

\* ReadVariantInt::read_variant_int on a reader over `stream` at offset `pos`
\* (0-based): the VariantInt read and the reader's new position
ReadVariantInt(stream, pos) == ReadVarintLoop(stream, pos, <<>>)

----------------------------------------------------------------------------
(* The varint machine: VariantInt values are made by from, from_bytes and  *)
(* read_variant_int, then decoded, written and compared.                   *)

Zeros(k) == [i \in 1 .. k |-> 0]

\* the bit positions set in a natural below 2^30
BitsOfNat(d) == {j \in 0 .. 29 : BitOf(d, j) = 1}

\* the u64 inputs: the values 2^k + d and 2^k - 1 - d around every power of
\* two, 0 and 2^64 - 1 among them
VarintInputs ==
    {U64OfBits({k} \cup BitsOfNat(d)) :
        k \in {k \in BitIdx : k >= ProbeRadius}, d \in 0 .. ProbeRadius}
    \cup {U64OfBits((0 .. (k - 1)) \ BitsOfNat(d)) :
        k \in 0 .. U64Bits, d \in 0 .. ProbeRadius}

VarintLastBytes == {0, 1, 127, 128, 129, 130, 255}

\* byte vectors as they can come from a file or from from_bytes: canonical,
\* zero-padded, over-long, without terminator, with bytes after the terminator
VarintByteSeqs ==
    {Zeros(k) \o <<l>> : k \in 0 .. MaxPad, l \in VarintLastBytes}
    \cup {<<a, l>> : a \in VarintLastBytes, l \in VarintLastBytes}

VarintPeerSeqs ==
    {Zeros(k) \o <<l>> : k \in 0 .. 1, l \in {128, 129}} \cup {<<1, 128>>, <<127, 129>>}

NoOp == [op |-> "none", res |-> Ok(<<>>)]

\* what the varint machine leaves alone
notVarint == <<cinput, ck, ck2, formatVars>>

\* a Chunker and its reader before the first call of next
FreshChunker ==
    [buf |-> <<>>, reach_eof |-> FALSE, pos |-> 0, errs |-> 0, items |-> <<>>]

ChunkerIdle ==
    /\ cinput = <<>>
    /\ ck = FreshChunker
    /\ ck2 = FreshChunker

\* Option::None and Some(v)
None == <<>>
Some(v) == <<v>>

\* Encoder::new: no header, the temp spool empty at position 0, the reader
\* at the start of its input
EncoderNew == [header |-> None, temp |-> <<>>, temp_pos |-> 0, rpos |-> 0]

\* no decoder built yet
NoDecoder ==
    [state |-> "none", err |-> "none", header |-> <<>>, header_size |-> 0,
     rpos |-> 0, runs |-> <<>>]

\* sync_to not called yet
NoSync == [state |-> "none", err |-> "none", fetched |-> <<>>]

\* no part of a header built or read yet
NoCall == [op |-> "none"]

FormatIdle ==
    /\ einput = <<>>
    /\ enc = EncoderNew
    /\ ecalls = <<>>
    /\ fout = <<>>
    /\ fsrc = <<>>
    /\ fcache = <<>>
    /\ dsrc = NoDecoder
    /\ dcache = NoDecoder
    /\ sync = NoSync
    /\ dout = NoDecoder
    /\ dref = NoDecoder
    /\ fres = NoCall
    /\ overflow_checks = FALSE

\* the inputs are drawn here: a u64 for from, a byte vector for from_bytes
\* and read_variant_int; no VariantInt is built yet
VarintInit ==
    /\ \/ vn \in VarintInputs /\ vbytes = <<>>
       \/ vn = U64Zero /\ vbytes \in VarintByteSeqs
    /\ vsrc = "none"
    /\ va = <<>>
    /\ vb = <<>>
    /\ vlast = NoOp
    /\ ChunkerIdle
    /\ FormatIdle

VFrom ==
    /\ vsrc = "none"
    /\ vbytes = <<>>
    /\ vsrc' = "from"
    /\ va' = VarintFrom(vn)
    /\ vlast' = NoOp
    /\ UNCHANGED <<vn, vbytes, vb, notVarint>>

VFromBytes ==
    /\ vsrc = "none"
    /\ vbytes # <<>>
    /\ vsrc' = "from_bytes"
    /\ va' = VarintFromBytes(vbytes)
    /\ vlast' = NoOp
    /\ UNCHANGED <<vn, vbytes, vb, notVarint>>

\* read_variant_int on a stream holding vbytes
VRead ==
    /\ vsrc = "none"
    /\ vbytes # <<>>
    /\ LET r == ReadVariantInt(vbytes, 0)
       IN  /\ vsrc' = IF r.ok THEN "read" ELSE "read_err"
           /\ va' = IF r.ok THEN r.val ELSE va
           /\ vlast' = [op |-> "read", res |-> [ok |-> r.ok, val |-> r.val, err |-> r.err]]
    /\ UNCHANGED <<vn, vbytes, vb, notVarint>>

VToU64 ==
    /\ vsrc \in {"from", "from_bytes", "read"}
    /\ vlast' = [op |-> "to_u64", res |-> VarintToU64(va)]
    /\ UNCHANGED <<vn, vbytes, vsrc, va, vb, notVarint>>

VWriteTo ==
    /\ vsrc \in {"from", "from_bytes", "read"}
    /\ vlast' = [op |-> "write_to", res |-> Ok(VarintWriteTo(va))]
    /\ UNCHANGED <<vn, vbytes, vsrc, va, vb, notVarint>>

\* a second VariantInt is read from a stream and compared with va
VEq ==
    /\ vsrc \in {"from", "from_bytes", "read"}
    /\ \E bs \in VarintPeerSeqs :
        LET r == ReadVariantInt(bs, 0)
        IN  /\ r.ok
            /\ vb' = r.val
            /\ vlast' = [op |-> "eq", res |-> Ok(VarintEq(va, r.val))]
    /\ UNCHANGED <<vn, vbytes, vsrc, va, notVarint>>

VarintNext ==
    \/ VFrom
    \/ VFromBytes
    \/ VRead
    \/ VToU64
    \/ VWriteTo
    \/ VEq

SpecVarint == VarintInit /\ [][VarintNext]_vars

----------------------------------------------------------------------------
(* C7.  For every u64 n, VariantInt::from(n).to_u64() is Ok(n), and the    *)
(* bytes write_to emits carry the 7-bit groups of n, least significant     *)
(* group first, with the high bit set on the last byte and on no other.    *)

\* the k-th 7-bit group of n (k = 0 is the least significant)
Group7(n, k) ==
    LET bit(j) == IF 7 * k + j < U64Bits THEN Bit(n, 7 * k + j) ELSE 0
    IN  bit(0) + 2 * bit(1) + 4 * bit(2) + 8 * bit(3)
        + 16 * bit(4) + 32 * bit(5) + 64 * bit(6)

CarriesGroups(bytes, n) ==
    /\ Len(bytes) >= 1
    /\ \A i \in 1 .. Len(bytes) :
        /\ bytes[i] \in 0 .. 255
        /\ bytes[i] % 128 = Group7(n, i - 1)
        /\ (bytes[i] >= 128) <=> (i = Len(bytes))
    /\ \A j \in BitIdx : j >= 7 * Len(bytes) => Bit(n, j) = 0

C7_VarintRoundTrip ==
    vsrc = "from" =>
        /\ vlast.op = "to_u64" => vlast.res = Ok(vn)
        /\ vlast.op = "write_to" => CarriesGroups(vlast.res.val, vn)

C7_Witness ==
    /\ vsrc = "from"
    /\ vlast.op = "to_u64"
    /\ Bit(vn, 63) = 1
    /\ Len(va) = 10

(* C9.  Two VariantInts are equal exactly when their decoded values are    *)
(* equal.                                                                  *)
C9_EqIffSameValue ==
    (vlast.op = "eq" /\ VarintToU64(va).ok /\ VarintToU64(vb).ok) =>
        (vlast.res.val <=> (VarintToU64(va).val = VarintToU64(vb).val))

----------------------------------------------------------------------------
(* The chunker (src/src/chunker.rs).                                       *)

CHUNKER_BUZHASH_BITMASK == Pow2(MaskBits) - 1

HashMod == Pow2(HashBits)

\* HASH_TABLE[b] for the bytes the model's readers hold, reduced to the
\* model's hash width (the low 16 bits of the first entries of the table)
HASH_TABLE(b) ==
    LET low16 == <<59218, 18636, 56248, 23400>>
    IN  low16[b + 1] % HashMod

\* x.rotate_left(r) on a word of HashBits bits
RotateLeft(x, r) ==
    LET s == r % HashBits
    IN  (x % Pow2(HashBits - s)) * Pow2(s) + (x \div Pow2(HashBits - s))

RECURSIVE XorBits(_, _, _)
XorBits(a, b, k) ==
    IF k = 0 THEN 0
    ELSE ((a + b) % 2) + 2 * XorBits(a \div 2, b \div 2, k - 1)

\* a ^ b
Xor(a, b) == XorBits(a, b, HashBits)

\* a & mask for a mask of the form 2^k - 1
AndMask(a, mask) == a % (mask + 1)

\* buf[from..to] of the source (0-based, `to` excluded)
Slice(buf, from, to) == SubSeq(buf, from + 1, to)

\* mutant of FillBuffer: the bytes read replace the buffer
FillBufferOverwrite(buf, data) == data

\* Chunker::fill_buffer with a read that returned `data`
FillBuffer(buf, data) == buf \o data

RECURSIVE WindowHash(_, _, _)
\* the hash of all the bytes of the first window
WindowHash(window, i, checksum) ==
    IF i >= Len(window) THEN checksum
    ELSE WindowHash(window, i + 1,
            Xor(checksum, RotateLeft(HASH_TABLE(window[i + 1]), WindowSize - i - 1)))

RECURSIVE ShiftWindow(_, _, _, _, _, _)
\* the loop over buf[min..]: the number of bytes the call drains
ShiftWindow(buf, min, window, idx, checksum, i) ==
    IF min + i >= Len(buf) THEN Len(buf)
    ELSE LET b == buf[min + i + 1]
             out == window[idx + 1]
             window2 == [window EXCEPT ![idx + 1] = b]
             idx2 == (idx + 1) % WindowSize
             checksum2 == Xor(Xor(RotateLeft(checksum, 1),
                                  RotateLeft(HASH_TABLE(out), WindowSize)),
                              HASH_TABLE(b))
         IN  IF AndMask(checksum2, CHUNKER_BUZHASH_BITMASK) = 0
             THEN min + i
             ELSE ShiftWindow(buf, min, window2, idx2, checksum2, i + 1)

\* mutant of CutChunk: a boundary at index i of buf[min..] drains buf[..i]
CutChunkDrainsToIndex(buf, min) ==
    LET buf_len == Len(buf)
        first_window_start == IF min > WindowSize THEN min - WindowSize ELSE 0
        first_window_end == IF min > WindowSize THEN min ELSE WindowSize
        cut(n) == [kind |-> "chunk", data |-> Slice(buf, 0, n),
                   rest |-> Slice(buf, n, buf_len)]
        from(window) ==
            cut(ShiftWindow(buf, min, window, 0, WindowHash(window, 0, 0), 0))
        drained(n) == IF n < buf_len THEN cut(n - min) ELSE cut(n)
    IN  IF buf_len = 0 THEN [kind |-> "end", data |-> <<>>, rest |-> buf]
        ELSE IF buf_len < min THEN [kind |-> "chunk", data |-> buf, rest |-> <<>>]
        ELSE IF first_window_end > buf_len
             THEN [kind |-> "panic", data |-> <<>>, rest |-> buf]
        ELSE drained(Len(from(Slice(buf, first_window_start, first_window_end)).data))

\* Iterator::next after the buffer is filled: what is returned ("end" for None,
\* "chunk" for Some(Ok(..)), "panic" for a slice out of range) and the bytes kept
CutChunk(buf, min) ==
    LET buf_len == Len(buf)
        first_window_start == IF min > WindowSize THEN min - WindowSize ELSE 0
        first_window_end == IF min > WindowSize THEN min ELSE WindowSize
    IN  IF buf_len = 0 THEN [kind |-> "end", data |-> <<>>, rest |-> buf]
        ELSE IF buf_len < min THEN [kind |-> "chunk", data |-> buf, rest |-> <<>>]
        ELSE IF first_window_end > buf_len
             THEN [kind |-> "panic", data |-> <<>>, rest |-> buf]
        ELSE LET window == Slice(buf, first_window_start, first_window_end)
                 n == ShiftWindow(buf, min, window, 0, WindowHash(window, 0, 0), 0)
             IN  [kind |-> "chunk", data |-> Slice(buf, 0, n),
                  rest |-> Slice(buf, n, buf_len)]

Item(kind, data) == [kind |-> kind, data |-> data]

\* Iterator::next on chunker c over `input`, when the reader's read (if next
\* makes one) has the outcome r: [kind |-> "ok", n |-> bytes returned],
\* [kind |-> "eof_err"] (ErrorKind::UnexpectedEof) or [kind |-> "io_err"]
ChunkerNext(c, input, r) ==
    LET reads == ~c.reach_eof /\ Len(c.buf) < ChunkerMax
        failed == reads /\ r.kind = "io_err"
        n == IF reads /\ r.kind = "ok" THEN r.n ELSE 0
        filled == IF n > 0
                  THEN FillBuffer(c.buf, Slice(input, c.pos, c.pos + n))
                  ELSE c.buf
        eof == c.reach_eof \/ (reads /\ r.kind = "eof_err")
        cut == CutChunk(filled, ChunkerMin)
    IN  IF failed
        THEN [c EXCEPT !.errs = @ + 1, !.items = Append(@, Item("err", <<>>))]
        ELSE [buf |-> cut.rest, reach_eof |-> eof, pos |-> c.pos + n,
              errs |-> c.errs, items |-> Append(c.items, Item(cut.kind, cut.data))]

----------------------------------------------------------------------------
(* The chunker machine: one call of next per step, the reader choosing     *)
(* what each read returns.                                                 *)

ChunkerBytes == {0, 1}

RECURSIVE SeqsUpTo(_, _)
\* the sequences over S of length at most n
SeqsUpTo(S, n) ==
    IF n = 0 THEN {<<>>}
    ELSE LET p == SeqsUpTo(S, n - 1)
         IN  p \cup {Append(q, x) : q \in {q \in p : Len(q) = n - 1}, x \in S}

notChunker == <<vn, vbytes, vsrc, va, vb, vlast, formatVars>>

VarintIdle ==
    /\ vn = U64Zero
    /\ vbytes = <<>>
    /\ vsrc = "none"
    /\ va = <<>>
    /\ vb = <<>>
    /\ vlast = NoOp

\* the outcomes a read of `want` bytes can have on a reader that still holds
\* `remaining` bytes: any short read, 0 bytes only at the end of the input
ReadOutcomes(c, input) ==
    LET want == ChunkerMax - Len(c.buf)
        remaining == Len(input) - c.pos
        most == IF want < remaining THEN want ELSE remaining
    IN  IF most = 0 THEN {[kind |-> "ok", n |-> 0]}
        ELSE {[kind |-> "ok", n |-> k] : k \in 1 .. most}

EndCalls(c) == Cardinality({i \in 1 .. Len(c.items) : c.items[i].kind = "end"})

Callable(c) ==
    /\ EndCalls(c) < MaxEndCalls
    /\ \A i \in 1 .. Len(c.items) : c.items[i].kind # "panic"

ChunkerInit ==
    /\ cinput \in SeqsUpTo(ChunkerBytes, MaxInputLen)
    /\ ck = FreshChunker
    /\ ck2 = FreshChunker
    /\ VarintIdle
    /\ FormatIdle

\* next() whose read returns some bytes, or 0 at the end of the input
CNextRead ==
    /\ Callable(ck)
    /\ \E r \in ReadOutcomes(ck, cinput) : ck' = ChunkerNext(ck, cinput, r)
    /\ UNCHANGED <<cinput, ck2, notChunker>>

\* next() whose read fails with an error other than UnexpectedEof
CNextIoError ==
    /\ Callable(ck)
    /\ ~ck.reach_eof
    /\ ck.errs < MaxIoErrors
    /\ ck' = ChunkerNext(ck, cinput, [kind |-> "io_err"])
    /\ UNCHANGED <<cinput, ck2, notChunker>>

\* next() whose read fails with ErrorKind::UnexpectedEof
CNextEofError ==
    /\ Callable(ck)
    /\ ~ck.reach_eof
    /\ ck' = ChunkerNext(ck, cinput, [kind |-> "eof_err"])
    /\ UNCHANGED <<cinput, ck2, notChunker>>

ChunkerNextStep ==
    \/ CNextRead
    \/ CNextIoError
    \/ CNextEofError

SpecChunker == ChunkerInit /\ [][ChunkerNextStep]_vars

\* the second chunker, over its own reader of the same bytes
C2NextRead ==
    /\ Callable(ck2)
    /\ \E r \in ReadOutcomes(ck2, cinput) : ck2' = ChunkerNext(ck2, cinput, r)
    /\ UNCHANGED <<cinput, ck, notChunker>>

ChunkerPairNext ==
    \/ CNextRead
    \/ C2NextRead

ChunkerPairInit ==
    /\ cinput \in SeqsUpTo(ChunkerBytes, MaxPairInputLen)
    /\ ck = FreshChunker
    /\ ck2 = FreshChunker
    /\ VarintIdle
    /\ FormatIdle

SpecChunkerPair == ChunkerPairInit /\ [][ChunkerPairNext]_vars

RECURSIVE ConcatChunks(_)
\* the Ok chunks of a sequence of items, concatenated
ConcatChunks(items) ==
    IF items = <<>> THEN <<>>
    ELSE LET h == Head(items)
         IN  (IF h.kind = "chunk" THEN h.data ELSE <<>>) \o ConcatChunks(Tail(items))

\* the items that are chunks, in order
Chunks(c) == SelectSeq(c.items, LAMBDA it : it.kind = "chunk")

Ended(c) == c.items # <<>> /\ c.items[Len(c.items)].kind = "end"

Delivered(c) == Slice(cinput, 0, c.pos)

(* C4.  For any reader, short reads included, the chunks yielded up to the *)
(* end of the sequence, concatenated, are the bytes the reader delivered,  *)
(* in order.                                                               *)
C4_ChunksConcatToInput ==
    Ended(ck) => ConcatChunks(ck.items) = Delivered(ck)

C4_Witness ==
    /\ Ended(ck)
    /\ ck.pos = Len(cinput)
    /\ Len(Chunks(ck)) >= 2
    /\ \E i \in 1 .. Len(Chunks(ck)) :
        Len(Chunks(ck)[i].data) \in (ChunkerMin + 1) .. (ChunkerMax - 1)
    /\ ck.errs > 0

(* C5.  Every chunk has a length in 1..MAX, and every chunk but the last   *)
(* has at least MIN bytes, unless the whole input is shorter than MIN.     *)
C5_ChunkLengths ==
    LET chunks == Chunks(ck)
    IN  \A i \in 1 .. Len(chunks) :
            /\ Len(chunks[i].data) \in 1 .. ChunkerMax
            /\ (i < Len(chunks) /\ Len(cinput) >= ChunkerMin)
                    => Len(chunks[i].data) >= ChunkerMin

(* C6.  Two chunkers with the same parameters, fed the same bytes by       *)
(* readers that split them differently, yield the same chunk boundaries.   *)
C6_SameBoundaries ==
    (Ended(ck) /\ Ended(ck2)) => Chunks(ck) = Chunks(ck2)

----------------------------------------------------------------------------
(* The container format (src/src/format.rs).  Hash functions and zstd are  *)
(* opaque to the program; they are modelled as injective functions of      *)
(* their input.                                                            *)

ZCHUNK_VERSION_1 == <<0, 90, 67, 75, 49>>
ZCHUNK_DETACHED_VERSION_1 == <<0, 90, 72, 82, 49>>

CHECKSUM_SHA1 == 0
CHECKSUM_SHA256 == 1
CHECKSUM_SHA512 == 2
CHECKSUM_SHA512_128 == 3

COMPRESSION_NONE == 0
COMPRESSION_ZSTD == 2

\* the widths of the digest fields: Lead.header_checksum and
\* Preface.data_checksum, and Chunk.checksum
HeaderChecksumLen == 32
ChunkChecksumLen == 16

\* a digest of `width` bytes: the algorithm, the length of the input and the
\* input itself (as much of it as the width holds), so that digests of inputs
\* of up to width - 2 bytes are equal only for equal inputs and algorithms
Digest(alg, bytes, width) ==
    LET kept == IF Len(bytes) < width - 2 THEN Len(bytes) ELSE width - 2
    IN  <<alg, Len(bytes) % 256>> \o SubSeq(bytes, 1, kept) \o Zeros(width - 2 - kept)

\* Sha256::new().update(bytes).finalize()
Sha256(bytes) == Digest(1, bytes, 32)
\* Sha512::new().update(bytes).finalize()
Sha512(bytes) == Digest(2, bytes, 64)

\* digest[..16]
Truncate16(digest) == SubSeq(digest, 1, ChunkChecksumLen)

\* the first byte of a zstd frame in the model
ZstdMagic == 40

\* zstd::encode_all(data, 3): one frame, never empty
ZstdEncode(data) == <<ZstdMagic, Len(data)>> \o data

RECURSIVE ZstdDecodeFrom(_, _, _)
ZstdDecodeFrom(bytes, pos, acc) ==
    IF pos >= Len(bytes) THEN Ok(acc)
    ELSE IF bytes[pos + 1] # ZstdMagic \/ pos + 2 > Len(bytes)
              \/ pos + 2 + bytes[pos + 2] > Len(bytes)
         THEN [ok |-> FALSE, val |-> acc, err |-> "Io"]
         ELSE ZstdDecodeFrom(bytes, pos + 2 + bytes[pos + 2],
                             acc \o SubSeq(bytes, pos + 3, pos + 2 + bytes[pos + 2]))

\* zstd decoding of a stream of frames (zstd::decode_all, copy_decode,
\* Decoder::with_dictionary): the plain bytes, or an error after the bytes
\* of the frames that were complete
ZstdDecode(bytes) == ZstdDecodeFrom(bytes, 0, <<>>)

\* a natural that stands for every length of 2^24 and more: no file of the
\* model is that long
Huge == 16777216

\* a u64 as a natural, for lengths and positions
U64ToNat(u) ==
    IF \E k \in 4 .. 8 : u[k] # 0 THEN Huge
    ELSE u[1] + 256 * u[2] + 65536 * u[3]

\* `as u32` of a u64: its four low bytes
U64AsU32(u) == SubSeq(u, 1, 4)

RECURSIVE AddBytes(_, _, _, _)
AddBytes(a, b, k, carry) ==
    IF k > Len(a) THEN <<>>
    ELSE <<(a[k] + b[k] + carry) % 256>>
            \o AddBytes(a, b, k + 1, (a[k] + b[k] + carry) \div 256)

\* a + b on u32 (four bytes each), wrapping
U32Add(a, b) == AddBytes(a, b, 1, 0)

\* a + b does not fit a u32: `+=` panics in a build with overflow checks
U32AddOverflows(a, b) == AddBytes(a \o <<0>>, b \o <<0>>, 1, 0)[5] # 0

\* `as u64` of a u32 offset, as a natural
U32ToNat(o) == IF o[4] # 0 THEN Huge ELSE o[1] + 256 * o[2] + 65536 * o[3]

\* parse results: the value read and the reader's position after it
POk(v, pos) == [ok |-> TRUE, val |-> v, err |-> "none", pos |-> pos]
PErr(e, pos) == [ok |-> FALSE, val |-> <<>>, err |-> e, pos |-> pos]

\* Read::read_exact of n bytes at pos
ReadExact(stream, pos, n) ==
    IF pos + n > Len(stream) THEN PErr("UnexpectedEof", pos)
    ELSE POk(SubSeq(stream, pos + 1, pos + n), pos + n)

\* Lead::new
LeadNew(header_size) ==
    [id |-> ZCHUNK_VERSION_1,
     checksum_type |-> VarintFrom(U64FromNat(CHECKSUM_SHA256)),
     header_size |-> VarintFrom(U64FromNat(header_size)),
     header_checksum |-> Zeros(HeaderChecksumLen)]

\* Lead::write_to
LeadWriteTo(lead, ignore_checksum) ==
    lead.id \o VarintWriteTo(lead.checksum_type) \o VarintWriteTo(lead.header_size)
    \o (IF ignore_checksum THEN <<>> ELSE lead.header_checksum)

\* Lead::byte_size
LeadByteSize(lead) ==
    Len(lead.id) + VarintByteSize(lead.checksum_type)
    + VarintByteSize(lead.header_size) + Len(lead.header_checksum)

\* Lead::from_reader
LeadFromReader(stream, pos) ==
    LET parsed(id, ct, ctv, hs, hc) ==
            IF ~id.ok THEN PErr(id.err, id.pos)
            ELSE IF id.val # ZCHUNK_VERSION_1 /\ id.val # ZCHUNK_DETACHED_VERSION_1
                 THEN PErr("InvalidLeaderID", id.pos)
            ELSE IF ~ct.ok THEN PErr(ct.err, ct.pos)
            ELSE IF ~ctv.ok THEN PErr("Io", ct.pos)
            ELSE IF U64AsU8(ctv.val) \notin {CHECKSUM_SHA1, CHECKSUM_SHA256}
                 THEN PErr("InvalidChecksumType", ct.pos)
            ELSE IF ~hs.ok THEN PErr(hs.err, hs.pos)
            ELSE IF ~hc.ok THEN PErr(hc.err, hc.pos)
            ELSE POk([id |-> id.val, checksum_type |-> ct.val, header_size |-> hs.val,
                      header_checksum |-> hc.val], hc.pos)
        with_size(id, ct, hs) ==
            parsed(id, ct, VarintToU64(ct.val), hs,
                   ReadExact(stream, hs.pos, HeaderChecksumLen))
        with_type(id, ct) == with_size(id, ct, ReadVariantInt(stream, ct.pos))
        with_id(id) == with_type(id, ReadVariantInt(stream, id.pos))
    IN  with_id(ReadExact(stream, pos, 5))

\* PrefaceFlags::has_stream, PrefaceFlags::has_optional on flags.uint
HasStream(uint) == Bit(uint, 0) = 1
HasOptional(uint) == Bit(uint, 1) = 1

\* the bytes an optional varint field writes, and their number
OptWriteTo(o) == IF o = None THEN <<>> ELSE VarintWriteTo(o[1])
OptByteSize(o) == IF o = None THEN 0 ELSE VarintByteSize(o[1])

\* Preface::new, with PrefaceFlags::from_u64(0)
PrefaceNew(data_checksum) ==
    [data_checksum |-> data_checksum,
     flags |-> [vint |-> VarintFrom(U64Zero), uint |-> U64Zero],
     compression_type |-> VarintFrom(U64FromNat(COMPRESSION_ZSTD)),
     optional_element_count |-> None]

\* Preface::write_to
PrefaceWriteTo(preface) ==
    preface.data_checksum \o VarintWriteTo(preface.flags.vint)
    \o VarintWriteTo(preface.compression_type)
    \o OptWriteTo(preface.optional_element_count)

\* Preface::byte_size
PrefaceByteSize(preface) ==
    Len(preface.data_checksum) + VarintByteSize(preface.flags.vint)
    + VarintByteSize(preface.compression_type)
    + OptByteSize(preface.optional_element_count)

\* Preface::from_reader, with PrefaceFlags::from_variant_int
PrefaceFromReader(stream, pos) ==
    LET parsed(dc, fl, flv, cp, cpv, opt) ==
            IF ~dc.ok THEN PErr(dc.err, dc.pos)
            ELSE IF ~fl.ok THEN PErr(fl.err, fl.pos)
            ELSE IF ~flv.ok THEN PErr("Io", fl.pos)
            ELSE IF ~cp.ok THEN PErr(cp.err, cp.pos)
            ELSE IF ~cpv.ok THEN PErr("Io", cp.pos)
            ELSE IF U64AsU8(cpv.val) \notin {COMPRESSION_NONE, COMPRESSION_ZSTD}
                 THEN PErr("InvalidCompresionType", cp.pos)
            ELSE IF HasOptional(flv.val) /\ ~opt.ok THEN PErr(opt.err, opt.pos)
            ELSE POk([data_checksum |-> dc.val,
                      flags |-> [vint |-> fl.val, uint |-> flv.val],
                      compression_type |-> cp.val,
                      optional_element_count |->
                          IF HasOptional(flv.val) THEN Some(opt.val) ELSE None],
                     IF HasOptional(flv.val) THEN opt.pos ELSE cp.pos)
        with_compression(dc, fl, cp) ==
            parsed(dc, fl, VarintToU64(fl.val), cp, VarintToU64(cp.val),
                   ReadVariantInt(stream, cp.pos))
        with_flags(dc, fl) == with_compression(dc, fl, ReadVariantInt(stream, fl.pos))
        with_checksum(dc) == with_flags(dc, ReadVariantInt(stream, dc.pos))
    IN  with_checksum(ReadExact(stream, pos, HeaderChecksumLen))

\* Chunk::new
ChunkNew(checksum, length, uncompressed_length) ==
    [stream |-> None, checksum |-> checksum,
     length |-> VarintFrom(U64FromNat(length)),
     uncompressed_length |-> VarintFrom(U64FromNat(uncompressed_length))]

\* Chunk::write_to
ChunkWriteTo(chunk) ==
    OptWriteTo(chunk.stream) \o chunk.checksum \o VarintWriteTo(chunk.length)
    \o VarintWriteTo(chunk.uncompressed_length)

\* Chunk::byte_size
ChunkByteSize(chunk) ==
    Len(chunk.checksum) + VarintByteSize(chunk.length)
    + VarintByteSize(chunk.uncompressed_length) + OptByteSize(chunk.stream)

\* Chunk::from_reader
ChunkFromReader(stream, pos, flags) ==
    LET parsed(st, cs, ln, ul) ==
            IF HasStream(flags.uint) /\ ~st.ok THEN PErr(st.err, st.pos)
            ELSE IF ~cs.ok THEN PErr(cs.err, cs.pos)
            ELSE IF ~ln.ok THEN PErr(ln.err, ln.pos)
            ELSE IF ~ul.ok THEN PErr(ul.err, ul.pos)
            ELSE POk([stream |-> IF HasStream(flags.uint) THEN Some(st.val) ELSE None,
                      checksum |-> cs.val, length |-> ln.val,
                      uncompressed_length |-> ul.val], ul.pos)
        with_length(st, cs, ln) == parsed(st, cs, ln, ReadVariantInt(stream, ln.pos))
        with_checksum(st, cs) == with_length(st, cs, ReadVariantInt(stream, cs.pos))
        with_stream(st) ==
            with_checksum(st, ReadExact(stream,
                                        IF HasStream(flags.uint) THEN st.pos ELSE pos,
                                        ChunkChecksumLen))
    IN  with_stream(ReadVariantInt(stream, pos))

\* impl PartialEq for Chunk
ChunkEq(a, b) ==
    /\ a.checksum = b.checksum
    /\ VarintEq(a.length, b.length)
    /\ VarintEq(a.uncompressed_length, b.uncompressed_length)

\* derive(Hash) for Chunk: what the hash of a chunk is computed from
ChunkHashInput(c) == <<c.stream, c.checksum, c.length, c.uncompressed_length>>

U32Zero == <<0, 0, 0, 0>>

RECURSIVE SumSizes(_)
\* chunks.iter().map(|c| c.byte_size()).sum() over (chunk, offset) pairs
SumSizes(data_chunks) ==
    IF data_chunks = <<>> THEN 0
    ELSE ChunkByteSize(Head(data_chunks).chunk) + SumSizes(Tail(data_chunks))

RECURSIVE WithOffsets(_, _)
\* the loop that pairs each chunk with the running sum of the lengths before
\* it (u32 arithmetic); a length that does not decode ends it with an error,
\* a sum that overflows with a panic when the build checks overflow
WithOffsets(chunks, chunk_offset) ==
    LET paired(c, lv, rest) ==
            IF ~lv.ok THEN Err("Io")
            ELSE IF overflow_checks /\ U32AddOverflows(chunk_offset, U64AsU32(lv.val))
                 THEN Err("panic")
            ELSE IF ~rest.ok THEN rest
            ELSE Ok(<<[chunk |-> c, offset |-> chunk_offset]>> \o rest.val)
        with_length(c, lv) ==
            paired(c, lv, WithOffsets(Tail(chunks),
                                      U32Add(chunk_offset, U64AsU32(lv.val))))
    IN  IF chunks = <<>> THEN Ok(<<>>)
        ELSE with_length(Head(chunks), VarintToU64(Head(chunks).length))

\* Index::new
IndexNew(chunks) ==
    LET built(dict_chunk, checksum_type, chunks_count, paired) ==
            IF ~paired.ok THEN paired
            ELSE Ok([size |-> VarintFrom(U64FromNat(
                          VarintByteSize(checksum_type) + VarintByteSize(chunks_count)
                          + ChunkByteSize(dict_chunk) + SumSizes(paired.val))),
                     checksum_type |-> checksum_type, chunks_count |-> chunks_count,
                     dict_chunk |-> dict_chunk, data_chunks |-> paired.val])
        with_dict(dict_chunk) ==
            built(dict_chunk, VarintFrom(U64FromNat(CHECKSUM_SHA512_128)),
                  VarintFrom(U64FromNat(Len(chunks) + 1)),
                  WithOffsets(chunks, U64AsU32(VarintToU64(dict_chunk.length).val)))
    IN  with_dict(ChunkNew(Zeros(ChunkChecksumLen), 0, 0))

RECURSIVE WriteChunks(_)
WriteChunks(data_chunks) ==
    IF data_chunks = <<>> THEN <<>>
    ELSE ChunkWriteTo(Head(data_chunks).chunk) \o WriteChunks(Tail(data_chunks))

\* Index::write_to
IndexWriteTo(index) ==
    VarintWriteTo(index.size) \o VarintWriteTo(index.checksum_type)
    \o VarintWriteTo(index.chunks_count) \o ChunkWriteTo(index.dict_chunk)
    \o WriteChunks(index.data_chunks)

\* Index::byte_size
IndexByteSize(index) ==
    VarintByteSize(index.checksum_type) + VarintByteSize(index.chunks_count)
    + ChunkByteSize(index.dict_chunk) + SumSizes(index.data_chunks)
    + VarintByteSize(index.size)

RECURSIVE ReadChunks(_, _, _, _, _, _)
\* the loop of Index::from_reader over 0..(chunks_count - 1)
ReadChunks(stream, pos, flags, n, chunk_offset, acc) ==
    LET read(c, lv) ==
            IF ~c.ok THEN PErr(c.err, c.pos)
            ELSE IF ~lv.ok THEN PErr("Io", c.pos)
            ELSE IF overflow_checks /\ U32AddOverflows(chunk_offset, U64AsU32(lv.val))
                 THEN PErr("panic", c.pos)
            ELSE ReadChunks(stream, c.pos, flags, n - 1,
                            U32Add(chunk_offset, U64AsU32(lv.val)),
                            Append(acc, [chunk |-> c.val, offset |-> chunk_offset]))
        with_chunk(c) == read(c, VarintToU64(c.val.length))
    IN  IF n = 0 THEN POk(acc, pos)
        ELSE with_chunk(ChunkFromReader(stream, pos, flags))

\* chunks_count - 1 on u64: in a build without overflow checks 0 - 1 wraps
\* to 2^64 - 1, more chunks than a reader can hold
CountMinusOne(count) == IF U64ToNat(count) = 0 THEN Huge ELSE U64ToNat(count) - 1

\* Index::from_reader
IndexFromReader(stream, pos, flags) ==
    LET parsed(size, ct, ctv, cnt, dict, dl, cntv, data, index_size) ==
            IF ~size.ok THEN PErr(size.err, size.pos)
            ELSE IF ~ct.ok THEN PErr(ct.err, ct.pos)
            ELSE IF ~ctv.ok THEN PErr("Io", ct.pos)
            ELSE IF U64AsU8(ctv.val) \notin
                        {CHECKSUM_SHA1, CHECKSUM_SHA256, CHECKSUM_SHA512,
                         CHECKSUM_SHA512_128}
                 THEN PErr("InvalidChecksumType", ct.pos)
            ELSE IF ~cnt.ok THEN PErr(cnt.err, cnt.pos)
            ELSE IF ~dict.ok THEN PErr(dict.err, dict.pos)
            ELSE IF ~dl.ok THEN PErr("Io", dict.pos)
            ELSE IF ~cntv.ok THEN PErr("Io", dict.pos)
            ELSE IF overflow_checks /\ cntv.val = U64Zero THEN PErr("panic", dict.pos)
            ELSE IF ~data.ok THEN PErr(data.err, data.pos)
            ELSE IF ~index_size.ok THEN PErr("Io", data.pos)
            ELSE IF U64FromNat(VarintByteSize(ct.val) + VarintByteSize(cnt.val)
                               + ChunkByteSize(dict.val) + SumSizes(data.val))
                    # index_size.val
                 THEN PErr("InvalidIndexSize", data.pos)
            ELSE POk([size |-> size.val, checksum_type |-> ct.val,
                      chunks_count |-> cnt.val, dict_chunk |-> dict.val,
                      data_chunks |-> data.val], data.pos)
        with_lengths(size, ct, cnt, dict, dl, cntv) ==
            parsed(size, ct, VarintToU64(ct.val), cnt, dict, dl, cntv,
                   ReadChunks(stream, dict.pos, flags, CountMinusOne(cntv.val),
                              U64AsU32(dl.val), <<>>),
                   VarintToU64(size.val))
        with_dict(size, ct, cnt, dict) ==
            with_lengths(size, ct, cnt, dict, VarintToU64(dict.val.length),
                         VarintToU64(cnt.val))
        with_count(size, ct, cnt) ==
            with_dict(size, ct, cnt, ChunkFromReader(stream, cnt.pos, flags))
        with_type(size, ct) == with_count(size, ct, ReadVariantInt(stream, ct.pos))
        with_size(size) == with_type(size, ReadVariantInt(stream, size.pos))
    IN  with_size(ReadVariantInt(stream, pos))

\* Signature::write_to
SignatureWriteTo(sig) ==
    VarintWriteTo(sig.type_) \o VarintWriteTo(sig.size) \o sig.signature

\* Signature::byte_size
SignatureByteSize(sig) ==
    VarintByteSize(sig.type_) + VarintByteSize(sig.size) + Len(sig.signature)

\* Signature::from_reader
SignatureFromReader(stream, pos) ==
    LET parsed(ty, sz, szv, sg) ==
            IF ~ty.ok THEN PErr(ty.err, ty.pos)
            ELSE IF ~sz.ok THEN PErr(sz.err, sz.pos)
            ELSE IF ~szv.ok THEN PErr("Io", sz.pos)
            ELSE IF ~sg.ok THEN PErr(sg.err, sg.pos)
            ELSE POk([type_ |-> ty.val, size |-> sz.val, signature |-> sg.val], sg.pos)
        with_length(ty, sz, szv) ==
            parsed(ty, sz, szv, ReadExact(stream, sz.pos, U64ToNat(szv.val)))
        with_size(ty, sz) == with_length(ty, sz, VarintToU64(sz.val))
        with_type(ty) == with_size(ty, ReadVariantInt(stream, ty.pos))
    IN  with_type(ReadVariantInt(stream, pos))

\* Signatures::new
SignaturesNew(signatures) ==
    [count |-> VarintFrom(U64FromNat(Len(signatures))), signatures |-> signatures]

RECURSIVE WriteSignatures(_)
WriteSignatures(sigs) ==
    IF sigs = <<>> THEN <<>>
    ELSE SignatureWriteTo(Head(sigs)) \o WriteSignatures(Tail(sigs))

\* Signatures::write_to
SignaturesWriteTo(s) == VarintWriteTo(s.count) \o WriteSignatures(s.signatures)

RECURSIVE SumSignatureSizes(_)
SumSignatureSizes(sigs) ==
    IF sigs = <<>> THEN 0
    ELSE SignatureByteSize(Head(sigs)) + SumSignatureSizes(Tail(sigs))

\* Signatures::byte_size
SignaturesByteSize(s) == VarintByteSize(s.count) + SumSignatureSizes(s.signatures)

RECURSIVE ReadSignatures(_, _, _, _)
ReadSignatures(stream, pos, n, acc) ==
    LET read(sg) ==
            IF ~sg.ok THEN PErr(sg.err, sg.pos)
            ELSE ReadSignatures(stream, sg.pos, n - 1, Append(acc, sg.val))
    IN  IF n = 0 THEN POk(acc, pos)
        ELSE read(SignatureFromReader(stream, pos))

\* Signatures::from_reader
SignaturesFromReader(stream, pos) ==
    LET parsed(count, cv, sigs) ==
            IF ~count.ok THEN PErr(count.err, count.pos)
            ELSE IF ~cv.ok THEN PErr("Io", count.pos)
            ELSE IF ~sigs.ok THEN PErr(sigs.err, sigs.pos)
            ELSE POk([count |-> count.val, signatures |-> sigs.val], sigs.pos)
        with_value(count, cv) ==
            parsed(count, cv, ReadSignatures(stream, count.pos, U64ToNat(cv.val), <<>>))
        with_count(count) == with_value(count, VarintToU64(count.val))
    IN  with_count(ReadVariantInt(stream, pos))

\* Header::new
HeaderNew(lead, preface, index, signatures) ==
    [lead |-> lead, preface |-> preface, index |-> index, signatures |-> signatures]

\* Header::write_to
HeaderWriteTo(header, ignore_checksum) ==
    LeadWriteTo(header.lead, ignore_checksum) \o PrefaceWriteTo(header.preface)
    \o IndexWriteTo(header.index) \o SignaturesWriteTo(header.signatures)

\* Header::compute_and_set_checksum
ComputeAndSetChecksum(header) ==
    [header EXCEPT !.lead.header_checksum = Sha256(HeaderWriteTo(header, TRUE))]

\* Header::has_dict_chunk
HasDictChunk(header, chunk) == ChunkEq(header.index.dict_chunk, chunk)

\* Header::find_data_chunks: the (chunk, offset) pairs of the index whose
\* chunk is equal to one of `chunks`, in index order
FindDataChunks(header, chunks) ==
    SelectSeq(header.index.data_chunks,
              LAMBDA p : \E i \in 1 .. Len(chunks) : ChunkEq(chunks[i], p.chunk))

----------------------------------------------------------------------------
(* Encoder.                                                                *)

\* what a read of the encoder's reader returns: `step` bytes at most, an
\* error when the reader's fault position is reached
PolicyRead(c, input, policy) ==
    LET want == ChunkerMax - Len(c.buf)
        remaining == Len(input) - c.pos
        most == IF want < remaining THEN want ELSE remaining
    IN  IF policy.fault >= 0 /\ c.pos >= policy.fault THEN [kind |-> "io_err"]
        ELSE [kind |-> "ok", n |-> IF policy.step < most THEN policy.step ELSE most]

RECURSIVE RunChunker(_, _, _)
\* `for c in chunker { c? .. }`: next is called until it returns None or an
\* error
RunChunker(c, input, policy) ==
    LET c2 == ChunkerNext(c, input, PolicyRead(c, input, policy))
    IN  IF c2.items[Len(c2.items)].kind = "chunk"
        THEN RunChunker(c2, input, policy)
        ELSE c2

RECURSIVE CompressAll(_)
\* the compressed bytes of every chunk, in order
CompressAll(items) ==
    IF items = <<>> THEN <<>>
    ELSE IF Head(items).kind # "chunk" THEN CompressAll(Tail(items))
    ELSE <<ZstdEncode(Head(items).data)>> \o CompressAll(Tail(items))

RECURSIVE ChunkMetas(_)
\* Chunk::new(sha512(compressed)[..16], compressed.len(), uncompressed.len())
ChunkMetas(items) ==
    LET meta(data, compressed) ==
            ChunkNew(Truncate16(Sha512(compressed)), Len(compressed), Len(data))
    IN  IF items = <<>> THEN <<>>
        ELSE IF Head(items).kind # "chunk" THEN ChunkMetas(Tail(items))
        ELSE <<meta(Head(items).data, ZstdEncode(Head(items).data))>>
             \o ChunkMetas(Tail(items))

RECURSIVE Flatten(_)
Flatten(seqs) == IF seqs = <<>> THEN <<>> ELSE Head(seqs) \o Flatten(Tail(seqs))

\* Write::write_all(data) on a seekable spool at position pos
WriteAt(spool, pos, data) ==
    SubSeq(spool, 1, pos) \o data \o SubSeq(spool, pos + Len(data) + 1, Len(spool))

\* mutant of BuildHeader: the header's size field leaves the signatures out
BuildHeaderShortSize(metas, written) ==
    LET built(signatures, index, preface) ==
            IF ~index.ok THEN index
            ELSE Ok(ComputeAndSetChecksum(
                HeaderNew(LeadNew(IndexByteSize(index.val) + PrefaceByteSize(preface)),
                          preface, index.val, signatures)))
    IN  built(SignaturesNew(<<>>), IndexNew(metas), PrefaceNew(Sha256(written)))

\* the end of Encoder::prepare_chunks: the header of the chunks `metas`
\* whose compressed bytes are `written`
BuildHeader(metas, written) ==
    LET built(signatures, index, preface) ==
            IF ~index.ok THEN index
            ELSE Ok(ComputeAndSetChecksum(
                HeaderNew(LeadNew(SignaturesByteSize(signatures)
                                  + IndexByteSize(index.val) + PrefaceByteSize(preface)),
                          preface, index.val, signatures)))
    IN  built(SignaturesNew(<<>>), IndexNew(metas), PrefaceNew(Sha256(written)))

\* Encoder::prepare_chunks over a reader of `input` that behaves as `policy`
\* says: the encoder afterwards and the error returned ("none" for Ok)
PrepareChunks(e, input, policy) ==
    LET done(last, spooled, header) ==
            IF last # "end"
            THEN [enc |-> spooled, err |-> IF last = "err" THEN "Io" ELSE "panic"]
            ELSE IF ~header.ok THEN [enc |-> spooled, err |-> header.err]
            ELSE [enc |-> [spooled EXCEPT !.header = Some(header.val)], err |-> "none"]
        spool(c, written) ==
            done(c.items[Len(c.items)].kind,
                 [e EXCEPT !.temp = WriteAt(e.temp, e.temp_pos, written),
                           !.temp_pos = @ + Len(written),
                           !.rpos = c.pos],
                 BuildHeader(ChunkMetas(c.items), written))
        chunked(c) == spool(c, Flatten(CompressAll(c.items)))
    IN  chunked(RunChunker([FreshChunker EXCEPT !.pos = e.rpos], input, policy))

\* mutant of CompressTo: the temp spool is rewound before the header is
\* looked at
CompressToRewindFirst(e, out) ==
    IF e.header = None
    THEN [enc |-> [e EXCEPT !.temp_pos = 0], out |-> out, err |-> "HeaderNotFound"]
    ELSE [enc |-> [e EXCEPT !.temp_pos = Len(e.temp)],
          out |-> out \o HeaderWriteTo(e.header[1], FALSE) \o e.temp,
          err |-> "none"]

\* Encoder::compress_to on a writer that holds `out`
CompressTo(e, out) ==
    IF e.header = None
    THEN [enc |-> e, out |-> out, err |-> "HeaderNotFound"]
    ELSE [enc |-> [e EXCEPT !.temp_pos = Len(e.temp)],
          out |-> out \o HeaderWriteTo(e.header[1], FALSE) \o e.temp,
          err |-> "none"]

----------------------------------------------------------------------------
(* Decoder.                                                                *)

\* Decoder::new on a reader of `file`
DecoderNew(file) ==
    LET failed(e) == [NoDecoder EXCEPT !.state = "failed", !.err = e]
        parsed(lead, preface, index, signatures, hs) ==
            IF ~lead.ok THEN failed(lead.err)
            ELSE IF ~preface.ok THEN failed(preface.err)
            ELSE IF ~index.ok THEN failed(index.err)
            ELSE IF ~signatures.ok THEN failed(signatures.err)
            ELSE IF ~hs.ok THEN failed("Io")
            ELSE IF U64ToNat(hs.val) + LeadByteSize(lead.val) # signatures.pos
                 THEN failed("InvalidHeaderSize")
            ELSE [state |-> "open", err |-> "none",
                  header |-> HeaderNew(lead.val, preface.val, index.val, signatures.val),
                  header_size |-> signatures.pos, rpos |-> signatures.pos,
                  runs |-> <<>>]
        with_index(lead, preface, index) ==
            parsed(lead, preface, index, SignaturesFromReader(file, index.pos),
                   VarintToU64(lead.val.header_size))
        with_preface(lead, preface) ==
            with_index(lead, preface,
                       IndexFromReader(file, preface.pos, preface.val.flags))
        with_lead(lead) == with_preface(lead, PrefaceFromReader(file, lead.pos))
    IN  with_lead(LeadFromReader(file, 0))

\* the 16 bytes get_chunk_data compares with chunk.checksum; <<>> when the
\* checksum type of the index is none of 1, 2, 3
ChunkDigest(checksum_type, buf) ==
    IF checksum_type = CHECKSUM_SHA256 THEN Truncate16(Sha256(buf))
    ELSE IF checksum_type \in {CHECKSUM_SHA512, CHECKSUM_SHA512_128}
         THEN Truncate16(Sha512(buf))
    ELSE <<>>

\* mutant of GetChunkData: the bytes read are not compared with the checksum
GetChunkDataUnverified(d, file, offset, chunk) ==
    LET got(lv, length, buf) ==
            IF ~lv.ok THEN PErr("Io", d.rpos)
            ELSE IF length = 0 THEN POk(<<>>, d.rpos)
            ELSE IF ~buf.ok THEN PErr("UnexpectedEof", Len(file))
            ELSE POk(buf.val, buf.pos)
        with_length(lv, length) ==
            got(lv, length, ReadExact(file, d.header_size + offset, length))
        with_varint(lv) == with_length(lv, U64ToNat(lv.val))
    IN  with_varint(VarintToU64(chunk.length))

\* Decoder::get_chunk_data: the bytes of the chunk, or an error, and the
\* position of the reader afterwards
GetChunkData(d, file, offset, chunk) ==
    LET got(lv, length, buf, ct, result) ==
            IF ~lv.ok THEN PErr("Io", d.rpos)
            ELSE IF length = 0 THEN POk(<<>>, d.rpos)
            ELSE IF ~buf.ok THEN PErr("UnexpectedEof", Len(file))
            ELSE IF ~ct.ok THEN PErr("Io", buf.pos)
            ELSE IF result = <<>> THEN PErr("InvalidChecksumType", buf.pos)
            ELSE IF chunk.checksum # result THEN PErr("ChunkChecksumNotMatch", buf.pos)
            ELSE POk(buf.val, buf.pos)
        with_buf(lv, length, buf, ct) ==
            got(lv, length, buf, ct, ChunkDigest(U64AsU8(ct.val), buf.val))
        with_length(lv, length) ==
            with_buf(lv, length, ReadExact(file, d.header_size + offset, length),
                     VarintToU64(d.header.index.checksum_type))
        with_varint(lv) == with_length(lv, U64ToNat(lv.val))
    IN  with_varint(VarintToU64(chunk.length))

\* Decoder::get_uncompressed_dict
GetUncompressedDict(d, file) ==
    LET got(data, dict) ==
            IF ~data.ok THEN data
            ELSE IF data.val = <<>> THEN POk(None, data.pos)
            ELSE IF ~dict.ok THEN PErr("Io", data.pos)
            ELSE POk(Some(dict.val), data.pos)
        with_data(data) == got(data, ZstdDecode(data.val))
    IN  with_data(GetChunkData(d, file, 0, d.header.index.dict_chunk))

RECURSIVE DecompressChunks(_, _, _, _)
\* the loop of decompress_to: every chunk is decoded from the `length` bytes
\* that follow the reader's position
DecompressChunks(file, rpos, data_chunks, out) ==
    LET copied(lv, taken, decoded) ==
            IF ~lv.ok THEN [err |-> "Io", out |-> out, rpos |-> rpos]
            ELSE IF ~decoded.ok
                 THEN [err |-> "Io", out |-> out \o decoded.val, rpos |-> rpos + taken]
            ELSE DecompressChunks(file, rpos + taken, Tail(data_chunks),
                                  out \o decoded.val)
        with_take(lv, taken) ==
            copied(lv, taken, ZstdDecode(SubSeq(file, rpos + 1, rpos + taken)))
        with_length(lv, length, left) ==
            with_take(lv, IF length < left THEN length ELSE left)
        with_varint(lv) ==
            with_length(lv, U64ToNat(lv.val),
                        IF rpos < Len(file) THEN Len(file) - rpos ELSE 0)
    IN  IF data_chunks = <<>> THEN [err |-> "none", out |-> out, rpos |-> rpos]
        ELSE with_varint(VarintToU64(Head(data_chunks).chunk.length))

\* Decoder::decompress_to on a fresh writer: the error returned and the
\* bytes written are appended to the runs of the decoder
DecompressTo(d, file) ==
    LET ran(r) == [d EXCEPT !.rpos = r.rpos,
                           !.runs = Append(@, [err |-> r.err, out |-> r.out])]
        with_dict(dict) ==
            IF ~dict.ok
            THEN [d EXCEPT !.rpos = dict.pos,
                           !.runs = Append(@, [err |-> dict.err, out |-> <<>>])]
            ELSE ran(DecompressChunks(file, dict.pos, d.header.index.data_chunks, <<>>))
    IN  with_dict(GetUncompressedDict(d, file))

\* HashMap::get(&chunk) on the map collected from `found`: derive(Hash) feeds
\* the stream to the hasher and PartialEq ignores it, so an entry that is
\* equal to the chunk but differs in its stream is found only when the two
\* hashes meet (`lenient`); of the entries with one key the last one stays
MapGet(found, chunk, lenient) ==
    LET last(hits) == IF hits = <<>> THEN None ELSE Some(hits[Len(hits)].offset)
    IN  last(SelectSeq(found,
                LAMBDA p : /\ ChunkEq(p.chunk, chunk)
                           /\ (lenient \/ ChunkHashInput(p.chunk) = ChunkHashInput(chunk))))

\* the reader and the offset the loop of sync_to fetches an entry from:
\* `match cache_chunk_offset_map.get(&chunk)`
Fetch(o, entry) ==
    IF o # None THEN [from |-> "cache", offset |-> U32ToNat(o[1])]
    ELSE [from |-> "source", offset |-> U32ToNat(entry.offset)]

RECURSIVE SyncChunksSkipCached(_, _, _, _, _, _, _, _, _)
\* mutant of SyncChunks: a chunk the cache holds is not written
SyncChunksSkipCached(d, dc, fs, fc, found, data_chunks, lenient, acc, rpos) ==
    LET wrote(f, data, rpos2, fetched) ==
            IF ~data.ok
            THEN [err |-> data.err, out |-> acc.out, rpos |-> rpos2, fetched |-> fetched]
            ELSE SyncChunksSkipCached(d, dc, fs, fc, found, Tail(data_chunks), lenient,
                                      [out |-> IF f.from = "cache" THEN acc.out
                                               ELSE acc.out \o data.val,
                                       fetched |-> fetched],
                                      rpos2)
        with_data(f, data) ==
            wrote(f, data, IF f.from = "cache" THEN rpos ELSE data.pos,
                  Append(acc.fetched, f))
        with_fetch(chunk, f) ==
            with_data(f, IF f.from = "cache"
                         THEN GetChunkData(dc, fc, f.offset, chunk)
                         ELSE GetChunkData([d EXCEPT !.rpos = rpos], fs, f.offset, chunk))
        with_chunk(chunk) ==
            with_fetch(chunk, Fetch(MapGet(found, chunk, lenient), Head(data_chunks)))
    IN  IF data_chunks = <<>>
        THEN [err |-> "none", out |-> acc.out, rpos |-> rpos, fetched |-> acc.fetched]
        ELSE with_chunk(Head(data_chunks).chunk)

RECURSIVE SyncChunks(_, _, _, _, _, _, _, _, _)
\* the loop of sync_to over the data chunks of the source
SyncChunks(d, dc, fs, fc, found, data_chunks, lenient, acc, rpos) ==
    LET wrote(data, rpos2, fetched) ==
            IF ~data.ok
            THEN [err |-> data.err, out |-> acc.out, rpos |-> rpos2, fetched |-> fetched]
            ELSE SyncChunks(d, dc, fs, fc, found, Tail(data_chunks), lenient,
                            [out |-> acc.out \o data.val, fetched |-> fetched], rpos2)
        with_data(f, data) ==
            wrote(data, IF f.from = "cache" THEN rpos ELSE data.pos,
                  Append(acc.fetched, f))
        with_fetch(chunk, f) ==
            with_data(f, IF f.from = "cache"
                         THEN GetChunkData(dc, fc, f.offset, chunk)
                         ELSE GetChunkData([d EXCEPT !.rpos = rpos], fs, f.offset, chunk))
        with_chunk(chunk) ==
            with_fetch(chunk, Fetch(MapGet(found, chunk, lenient), Head(data_chunks)))
    IN  IF data_chunks = <<>>
        THEN [err |-> "none", out |-> acc.out, rpos |-> rpos, fetched |-> acc.fetched]
        ELSE with_chunk(Head(data_chunks).chunk)

RECURSIVE ChunksOf(_)
\* data_chunks.into_iter().map(|(c, _)| c).collect()
ChunksOf(data_chunks) ==
    IF data_chunks = <<>> THEN <<>>
    ELSE <<Head(data_chunks).chunk>> \o ChunksOf(Tail(data_chunks))

\* Decoder::sync_to of the decoder d (over fs) with the cache dc (over fc):
\* the error returned, the bytes written, the position of d's reader and the
\* fetches of data chunks made
SyncTo(d, dc, fs, fc, lenient) ==
    LET synced(head, cached, dict) ==
            IF ~dict.ok
            THEN [err |-> dict.err, out |-> head,
                  rpos |-> IF cached THEN d.rpos ELSE dict.pos, fetched |-> <<>>]
            ELSE SyncChunks(d, dc, fs, fc,
                            FindDataChunks(dc.header, ChunksOf(d.header.index.data_chunks)),
                            d.header.index.data_chunks, lenient,
                            [out |-> head \o dict.val, fetched |-> <<>>],
                            IF cached THEN d.rpos ELSE dict.pos)
        with_dict(dict_chunk, cached) ==
            synced(HeaderWriteTo(d.header, FALSE), cached,
                   IF cached THEN GetChunkData(dc, fc, 0, dict_chunk)
                   ELSE GetChunkData(d, fs, 0, dict_chunk))
        with_chunk(dict_chunk) == with_dict(dict_chunk, HasDictChunk(dc.header, dict_chunk))
    IN  with_chunk(d.header.index.dict_chunk)

----------------------------------------------------------------------------
(* The codec machine: an encoder over a reader of einput, the file it      *)
(* emits into fout, and a decoder opened on that file.                     *)

notCodec ==
    <<vn, vbytes, vsrc, va, vb, vlast, cinput, ck, ck2, fsrc, fcache, dsrc, dcache,
      sync, dref, fres, overflow_checks>>

Call(op, err, fault) == [op |-> op, err |-> err, fault |-> fault]

\* the encoder's reader returns one byte per read, or all that is asked for
ReadSteps == {1, ChunkerMax}

Faults == Cardinality({i \in 1 .. Len(ecalls) : ecalls[i].fault})

CodecInit ==
    /\ einput \in SeqsUpTo(ChunkerBytes, MaxCodecInputLen)
    /\ enc = EncoderNew
    /\ ecalls = <<>>
    /\ fout = <<>>
    /\ fsrc = <<>>
    /\ fcache = <<>>
    /\ dsrc = NoDecoder
    /\ dcache = NoDecoder
    /\ sync = NoSync
    /\ dout = NoDecoder
    /\ dref = NoDecoder
    /\ fres = NoCall
    /\ overflow_checks = FALSE
    /\ VarintIdle
    /\ ChunkerIdle

\* prepare_chunks over a reader that returns up to `step` bytes per read
EPrepare ==
    /\ Len(ecalls) < MaxEncoderCalls
    /\ \E step \in ReadSteps :
        \E r \in {PrepareChunks(enc, einput, [step |-> step, fault |-> -1])} :
            /\ enc' = r.enc
            /\ ecalls' = Append(ecalls, Call("prepare_chunks", r.err, FALSE))
    /\ UNCHANGED <<einput, fout, dout, notCodec>>

\* prepare_chunks over a reader that fails at some position of its input
EPrepareFault ==
    /\ Len(ecalls) < MaxEncoderCalls
    /\ Faults < MaxIoErrors
    /\ \E step \in ReadSteps, fault \in enc.rpos .. Len(einput) :
        \E r \in {PrepareChunks(enc, einput, [step |-> step, fault |-> fault])} :
            /\ enc' = r.enc
            /\ ecalls' = Append(ecalls, Call("prepare_chunks", r.err, TRUE))
    /\ UNCHANGED <<einput, fout, dout, notCodec>>

\* compress_to into the writer; the writer is complete before it is read
ECompress ==
    /\ Len(ecalls) < MaxEncoderCalls
    /\ dout.state = "none"
    /\ \E r \in {CompressTo(enc, fout)} :
        /\ enc' = r.enc
        /\ fout' = r.out
        /\ ecalls' = Append(ecalls, Call("compress_to", r.err, FALSE))
    /\ UNCHANGED <<einput, dout, notCodec>>

\* Decoder::new on the emitted file
OutNew ==
    /\ dout.state = "none"
    /\ dout' = DecoderNew(fout)
    /\ UNCHANGED <<einput, enc, ecalls, fout, notCodec>>

\* decompress_to of the decoder over the emitted file
OutDecompress ==
    /\ dout.state = "open"
    /\ Len(dout.runs) < MaxCodecRuns
    /\ dout' = DecompressTo(dout, fout)
    /\ UNCHANGED <<einput, enc, ecalls, fout, notCodec>>

CodecNext ==
    \/ EPrepare
    \/ EPrepareFault
    \/ ECompress
    \/ OutNew
    \/ OutDecompress

SpecCodec == CodecInit /\ [][CodecNext]_vars

\* the first call was prepare_chunks over a reader that did not fail
PreparedFirst ==
    /\ ecalls # <<>>
    /\ ecalls[1].op = "prepare_chunks"
    /\ ~ecalls[1].fault

\* prepare_chunks then compress_to, and nothing else, were called
Emitted ==
    /\ PreparedFirst
    /\ Len(ecalls) = 2
    /\ ecalls[2].op = "compress_to"

(* C1.  For every input X, the empty one included, prepare_chunks then     *)
(* compress_to succeed, Decoder::new opens the emitted file, and           *)
(* decompress_to succeeds and writes exactly X.                            *)
C1_DecodeEncodeIsIdentity ==
    /\ PreparedFirst => ecalls[1].err = "none"
    /\ Emitted =>
        /\ ecalls[2].err = "none"
        /\ dout.state \in {"none", "open"}
        /\ dout.runs # <<>> => dout.runs[1] = [err |-> "none", out |-> einput]

C1_Witness ==
    /\ Emitted
    /\ Len(einput) = MaxCodecInputLen
    /\ dout.state = "open"
    /\ Len(dout.header.index.data_chunks) >= 2
    /\ dout.runs # <<>>
    /\ dout.runs[1].out = einput

C1_WitnessEmpty ==
    /\ Emitted
    /\ einput = <<>>
    /\ dout.runs # <<>>
    /\ dout.runs[1] = [err |-> "none", out |-> <<>>]

\* no call of prepare_chunks has returned Ok
NeverPrepared ==
    \A i \in 1 .. Len(ecalls) : ~(ecalls[i].op = "prepare_chunks" /\ ecalls[i].err = "none")

(* C10.  compress_to on an encoder whose prepare_chunks has never          *)
(* succeeded returns HeaderNotFound, writes no byte to the writer and      *)
(* leaves the temp spool and its position as they were.                    *)
C10_CompressBeforePrepare ==
    [][(NeverPrepared /\ Len(ecalls') = Len(ecalls) + 1
            /\ ecalls'[Len(ecalls')].op = "compress_to")
        => /\ ecalls'[Len(ecalls')].err = "HeaderNotFound"
           /\ fout' = fout
           /\ enc'.temp_pos = enc.temp_pos
           /\ enc'.temp = enc.temp]_vars

C10_Witness ==
    /\ NeverPrepared
    /\ Len(ecalls) >= 2
    /\ ecalls[Len(ecalls)] = Call("compress_to", "HeaderNotFound", FALSE)
    /\ enc.temp_pos > 0
    /\ fout = <<>>

----------------------------------------------------------------------------
(* Files given to Decoder::new: headers laid out as Header::write_to lays  *)
(* them out, followed by the dict and the data chunks, with one varint     *)
(* field padded or the data damaged.                                       *)

\* the varint v with k more bytes: the same value, the terminator moved
PadVarint(v, k) ==
    IF k = 0 THEN v
    ELSE SubSeq(v, 1, Len(v) - 1) \o <<ByteAnd7f(v[Len(v)])>> \o Zeros(k - 1) \o <<128>>

NoPad == [field |-> <<"none">>, k |-> 0]

\* VariantInt::from(n), padded when `name` is the padded field
Field(pad, name, n) ==
    IF pad.field = name THEN PadVarint(VarintFrom(U64FromNat(n)), pad.k)
    ELSE VarintFrom(U64FromNat(n))

\* SHA-1 of the bytes: the digest the format names by CHECKSUM_SHA1, which
\* the code computes nowhere
Sha1(bytes) == Digest(CHECKSUM_SHA1, bytes, 20)

\* the checksum the format wants in the index entry of a chunk, for the
\* checksum type of the index
FormatChecksum(ctype, bytes) ==
    IF ctype = CHECKSUM_SHA1 THEN Truncate16(Sha1(bytes)) ELSE ChunkDigest(ctype, bytes)

\* the index entry of a chunk whose bytes in the file are `bytes`
CraftChunk(pad, which, flagsv, streamv, ctype, bytes, ulen) ==
    [stream |-> IF HasStream(U64FromNat(flagsv))
                THEN Some(Field(pad, <<which, "stream">>, streamv)) ELSE None,
     checksum |-> IF bytes = <<>> THEN Zeros(ChunkChecksumLen)
                  ELSE FormatChecksum(ctype, bytes),
     length |-> Field(pad, <<which, "length">>, Len(bytes)),
     uncompressed_length |-> Field(pad, <<which, "uncompressed_length">>, ulen)]

RECURSIVE CraftChunks(_, _, _, _, _)
\* the index entries of the data chunks whose plain bytes are `datas`
CraftChunks(pad, flagsv, streamv, ctype, datas) ==
    IF datas = <<>> THEN <<>>
    ELSE <<[chunk |-> CraftChunk(pad, "chunk", flagsv, streamv, ctype,
                                 ZstdEncode(Head(datas)), Len(Head(datas))),
            offset |-> U32Zero]>>
         \o CraftChunks(pad, flagsv, streamv, ctype, Tail(datas))

\* an index over the entries, its size field as from_reader expects it
CraftIndex(pad, ctype, dict_chunk, data_chunks) ==
    LET built(ct, cnt) ==
            [size |-> Field(pad, <<"index", "size">>,
                            VarintByteSize(ct) + VarintByteSize(cnt)
                            + ChunkByteSize(dict_chunk) + SumSizes(data_chunks)),
             checksum_type |-> ct, chunks_count |-> cnt, dict_chunk |-> dict_chunk,
             data_chunks |-> data_chunks]
    IN  built(Field(pad, <<"index", "checksum_type">>, ctype),
              Field(pad, <<"index", "chunks_count">>, Len(data_chunks) + 1))

\* a header over the index and signatures, its size field as Decoder::new
\* expects it
CraftHeader(pad, flagsv, index, signatures, data_checksum) ==
    LET built(preface) ==
            ComputeAndSetChecksum(HeaderNew(
                [id |-> ZCHUNK_VERSION_1,
                 checksum_type |-> Field(pad, <<"lead", "checksum_type">>, CHECKSUM_SHA256),
                 header_size |-> Field(pad, <<"lead", "header_size">>,
                                       PrefaceByteSize(preface) + IndexByteSize(index)
                                       + SignaturesByteSize(signatures)),
                 header_checksum |-> Zeros(HeaderChecksumLen)],
                preface, index, signatures))
    IN  built([data_checksum |-> data_checksum,
               flags |-> [vint |-> Field(pad, <<"preface", "flags">>, flagsv),
                          uint |-> U64FromNat(flagsv)],
               compression_type |->
                   Field(pad, <<"preface", "compression_type">>, COMPRESSION_ZSTD),
               optional_element_count |->
                   IF HasOptional(U64FromNat(flagsv))
                   THEN Some(Field(pad, <<"preface", "optional_element_count">>, 0))
                   ELSE None])

\* the varint fields of a header
PadFields ==
    {<<"lead", "checksum_type">>, <<"lead", "header_size">>, <<"preface", "flags">>,
     <<"preface", "compression_type">>, <<"preface", "optional_element_count">>,
     <<"index", "size">>, <<"index", "checksum_type">>, <<"index", "chunks_count">>,
     <<"dict", "stream">>, <<"dict", "length">>, <<"dict", "uncompressed_length">>,
     <<"chunk", "stream">>, <<"chunk", "length">>, <<"chunk", "uncompressed_length">>,
     <<"signatures", "count">>, <<"signature", "type_">>, <<"signature", "size">>}

\* a file of one data chunk and one signature, with the flags `flagsv`
HeaderFile(pad, flagsv, data) ==
    HeaderWriteTo(
        CraftHeader(pad, flagsv,
            CraftIndex(pad, CHECKSUM_SHA512_128,
                       CraftChunk(pad, "dict", flagsv, 0, CHECKSUM_SHA512_128, <<>>, 0),
                       CraftChunks(pad, flagsv, 0, CHECKSUM_SHA512_128, <<data>>)),
            [count |-> Field(pad, <<"signatures", "count">>, 1),
             signatures |-> <<[type_ |-> Field(pad, <<"signature", "type_">>, 0),
                               size |-> Field(pad, <<"signature", "size">>, 1),
                               signature |-> <<7>>]>>],
            Sha256(ZstdEncode(data))),
        FALSE)
    \o ZstdEncode(data)

\* flags of the preface: none, has_stream, has_optional, both
HeaderFlags == 0 .. 3

HeaderFiles ==
    {HeaderFile([field |-> f, k |-> k], flagsv, <<1>>) :
        f \in PadFields, k \in 0 .. MaxPad, flagsv \in HeaderFlags}

----------------------------------------------------------------------------
(* The header machine: Decoder::new, then decompress_to, on a file whose   *)
(* header has one varint field padded.                                     *)

notRef ==
    <<vn, vbytes, vsrc, va, vb, vlast, cinput, ck, ck2, einput, enc, ecalls, fout,
      fcache, dsrc, dcache, sync, dout, fres, overflow_checks>>

HeaderInit ==
    /\ fsrc \in HeaderFiles
    /\ einput = <<>>
    /\ enc = EncoderNew
    /\ ecalls = <<>>
    /\ fout = <<>>
    /\ fcache = <<>>
    /\ dsrc = NoDecoder
    /\ dcache = NoDecoder
    /\ sync = NoSync
    /\ dout = NoDecoder
    /\ dref = NoDecoder
    /\ fres = NoCall
    /\ overflow_checks = FALSE
    /\ VarintIdle
    /\ ChunkerIdle

\* Decoder::new on the source file
RefNew ==
    /\ dref.state = "none"
    /\ dref' = DecoderNew(fsrc)
    /\ UNCHANGED <<fsrc, notRef>>

\* decompress_to of that decoder
RefDecompress ==
    /\ dref.state = "open"
    /\ Len(dref.runs) < MaxRuns
    /\ dref' = DecompressTo(dref, fsrc)
    /\ UNCHANGED <<fsrc, notRef>>

HeaderNext ==
    \/ RefNew
    \/ RefDecompress

SpecHeader == HeaderInit /\ [][HeaderNext]_vars

RECURSIVE ChunkVarints(_)
\* the varint fields of the entries of an index
ChunkVarints(chunks) ==
    IF chunks = <<>> THEN {}
    ELSE {Head(chunks).length, Head(chunks).uncompressed_length}
         \cup {Head(chunks).stream[i] : i \in 1 .. Len(Head(chunks).stream)}
         \cup ChunkVarints(Tail(chunks))

RECURSIVE SignatureVarints(_)
SignatureVarints(sigs) ==
    IF sigs = <<>> THEN {}
    ELSE {Head(sigs).type_, Head(sigs).size} \cup SignatureVarints(Tail(sigs))

\* every varint field of a header
HeaderVarints(h) ==
    {h.lead.checksum_type, h.lead.header_size, h.preface.flags.vint,
     h.preface.compression_type, h.index.size, h.index.checksum_type,
     h.index.chunks_count, h.signatures.count}
    \cup {h.preface.optional_element_count[i] :
            i \in 1 .. Len(h.preface.optional_element_count)}
    \cup ChunkVarints(<<h.index.dict_chunk>> \o ChunksOf(h.index.data_chunks))
    \cup SignatureVarints(h.signatures.signatures)

(* C8.  Decoder::new returns an error when any varint field of the header  *)
(* is encoded in more than 10 bytes: a decoder that opened holds no such   *)
(* field.                                                                  *)
C8_OverlongVarintRejected ==
    dref.state = "open" => \A v \in HeaderVarints(dref.header) : VarintByteSize(v) <= 10

----------------------------------------------------------------------------
(* The sync machine: a source file and a cache file, Decoder::new on both, *)
(* sync_to into a writer, and the source and the written file decoded.     *)

\* how a file differs from what the encoder emits
FileKinds ==
    {"plain",    \* as the encoder emits it
     "sha256",   \* chunk checksums of type CHECKSUM_SHA256
     "sha1",     \* chunk checksums of type CHECKSUM_SHA1
     "stream1",  \* has_stream set, every chunk in stream 1
     "stream2",  \* has_stream set, every chunk in stream 2
     "dict",     \* with a dict chunk
     "corrupt",  \* the last byte of the data changed
     "short",    \* the last byte of the data missing
     "extra"}    \* one byte after the last chunk

RECURSIVE CompressEach(_)
CompressEach(datas) ==
    IF datas = <<>> THEN <<>>
    ELSE ZstdEncode(Head(datas)) \o CompressEach(Tail(datas))

\* the damage of the kind, done to the bytes after the header
Damage(kind, body) ==
    IF kind = "extra" THEN body \o <<0>>
    ELSE IF body = <<>> THEN body
    ELSE IF kind = "short" THEN SubSeq(body, 1, Len(body) - 1)
    ELSE IF kind = "corrupt"
         THEN SubSeq(body, 1, Len(body) - 1) \o <<(body[Len(body)] + 1) % 256>>
    ELSE body

\* the file of the kind whose data chunks hold `datas`
SyncFile(kind, datas) ==
    LET laid(flagsv, streamv, ctype, dict) ==
            HeaderWriteTo(
                CraftHeader(NoPad, flagsv,
                    CraftIndex(NoPad, ctype,
                               CraftChunk(NoPad, "dict", flagsv, 0, ctype, dict,
                                          IF dict = <<>> THEN 0 ELSE 1),
                               CraftChunks(NoPad, flagsv, streamv, ctype, datas)),
                    SignaturesNew(<<>>), Sha256(CompressEach(datas))),
                FALSE)
            \o Damage(kind, dict \o CompressEach(datas))
    IN  laid(IF kind \in {"stream1", "stream2"} THEN 1 ELSE 0,
             IF kind = "stream2" THEN 2 ELSE 1,
             IF kind = "sha256" THEN CHECKSUM_SHA256
             ELSE IF kind = "sha1" THEN CHECKSUM_SHA1 ELSE CHECKSUM_SHA512_128,
             IF kind = "dict" THEN ZstdEncode(<<9>>) ELSE <<>>)

\* the plain bytes a data chunk can hold
ChunkDatas == {<<0>>, <<1>>}

SyncFiles ==
    {SyncFile(kind, datas) :
        kind \in FileKinds, datas \in SeqsUpTo(ChunkDatas, MaxSyncChunks)}

\* the kinds of cache files: those whose chunks a source can share, and a
\* damaged one
CacheKinds == {"plain", "sha256", "stream1", "stream2", "dict", "corrupt"}

CacheFiles ==
    {SyncFile(kind, datas) :
        kind \in CacheKinds, datas \in SeqsUpTo(ChunkDatas, MaxSyncChunks)}

notSync ==
    <<vn, vbytes, vsrc, va, vb, vlast, cinput, ck, ck2, einput, enc, ecalls, fres,
      overflow_checks>>

SyncInit ==
    /\ fsrc \in SyncFiles
    /\ fcache \in CacheFiles
    /\ einput = <<>>
    /\ enc = EncoderNew
    /\ ecalls = <<>>
    /\ fout = <<>>
    /\ dsrc = NoDecoder
    /\ dcache = NoDecoder
    /\ sync = NoSync
    /\ dout = NoDecoder
    /\ dref = NoDecoder
    /\ fres = NoCall
    /\ overflow_checks = FALSE
    /\ VarintIdle
    /\ ChunkerIdle

\* Decoder::new on the source file, for sync_to
SrcNew ==
    /\ dsrc.state = "none"
    /\ dsrc' = DecoderNew(fsrc)
    /\ UNCHANGED <<fsrc, fcache, fout, dcache, sync, dout, dref, notSync>>

\* Decoder::new on the source file, to decode it
SyncRefNew ==
    /\ dsrc.state = "open"
    /\ RefNew

\* Decoder::new on the cache file
CacheNew ==
    /\ dref.runs # <<>>
    /\ dcache.state = "none"
    /\ dcache' = DecoderNew(fcache)
    /\ UNCHANGED <<fsrc, fcache, fout, dsrc, sync, dout, dref, notSync>>

\* source.sync_to(cache, writer): the cache is moved into the call
SyncToStep ==
    /\ dsrc.state = "open"
    /\ dcache.state = "open"
    /\ sync.state = "none"
    /\ \E lenient \in BOOLEAN :
        \E r \in {SyncTo(dsrc, dcache, fsrc, fcache, lenient)} :
            /\ sync' = [state |-> "done", err |-> r.err, fetched |-> r.fetched]
            /\ fout' = fout \o r.out
            /\ dsrc' = [dsrc EXCEPT !.rpos = r.rpos]
    /\ dcache' = [dcache EXCEPT !.state = "moved"]
    /\ UNCHANGED <<fsrc, fcache, dout, dref, notSync>>

\* Decoder::new on the file sync_to wrote
SyncOutNew ==
    /\ sync.state = "done"
    /\ dout.state = "none"
    /\ dout' = DecoderNew(fout)
    /\ UNCHANGED <<fsrc, fcache, fout, dsrc, dcache, sync, dref, notSync>>

\* decompress_to of that decoder
SyncOutDecompress ==
    /\ sync.state = "done"
    /\ dout.state = "open"
    /\ Len(dout.runs) < MaxRuns
    /\ dout' = DecompressTo(dout, fout)
    /\ UNCHANGED <<fsrc, fcache, fout, dsrc, dcache, sync, dref, notSync>>

SyncNext ==
    \/ SrcNew
    \/ SyncRefNew
    \/ RefDecompress
    \/ CacheNew
    \/ SyncToStep
    \/ SyncOutNew
    \/ SyncOutDecompress

SpecSync == SyncInit /\ [][SyncNext]_vars

RECURSIVE EntriesVerify(_, _, _)
\* the bytes at the offset of every entry have the entry's checksum
EntriesVerify(d, file, data_chunks) ==
    \/ data_chunks = <<>>
    \/ /\ GetChunkData(d, file, U32ToNat(Head(data_chunks).offset),
                       Head(data_chunks).chunk).ok
       /\ EntriesVerify(d, file, Tail(data_chunks))

\* the file of decoder d holds the dict and every data chunk its index lists
ChunksVerify(d, file) ==
    /\ d.state \in {"open", "moved"}
    /\ GetChunkData(d, file, 0, d.header.index.dict_chunk).ok
    /\ EntriesVerify(d, file, d.header.index.data_chunks)

RECURSIVE SumLengths(_)
SumLengths(chunks) ==
    IF chunks = <<>> THEN 0
    ELSE U64ToNat(VarintToU64(Head(chunks).length).val) + SumLengths(Tail(chunks))

\* the file ends with its last data chunk
NothingAfter(d, file) ==
    Len(file) = d.header_size
                + SumLengths(<<d.header.index.dict_chunk>>
                             \o ChunksOf(d.header.index.data_chunks))

SyncOk == sync.state = "done" /\ sync.err = "none"

(* C2.  For a source and a cache that hold the chunks their indexes list,  *)
(* when sync_to succeeds the written file opens and decodes to what the    *)
(* source decodes to.                                                      *)
C2_SyncDecodesLikeSource ==
    (SyncOk /\ ChunksVerify(dsrc, fsrc) /\ ChunksVerify(dcache, fcache))
        => /\ dout.state \in {"none", "open"}
           /\ dout.runs # <<>> => dout.runs[1] = dref.runs[1]

\* the number of entries of the source that sync_to finds in the cache map
CachedEntries ==
    Cardinality({i \in 1 .. Len(dsrc.header.index.data_chunks) :
        FindDataChunks(dcache.header,
                       <<dsrc.header.index.data_chunks[i].chunk>>) # <<>>})

C2_Witness ==
    /\ SyncOk
    /\ ChunksVerify(dsrc, fsrc)
    /\ ChunksVerify(dcache, fcache)
    /\ fsrc # fcache
    /\ Len(dsrc.header.index.data_chunks) = MaxSyncChunks
    /\ CachedEntries = 1
    /\ dout.runs # <<>>
    /\ dout.runs[1] = dref.runs[1]
    /\ dout.runs[1].err = "none"
    /\ Len(dout.runs[1].out) = MaxSyncChunks

(* C3.  For a source that is its header, then its dict, then its data      *)
(* chunks in index order and nothing more, and any cache, a successful     *)
(* sync_to writes the bytes of the source, whichever chunks come from the  *)
(* cache.                                                                  *)
C3_SyncWritesSource ==
    (SyncOk /\ ChunksVerify(dsrc, fsrc) /\ NothingAfter(dsrc, fsrc)) => fout = fsrc

C3_Witness ==
    /\ SyncOk
    /\ ChunksVerify(dsrc, fsrc)
    /\ NothingAfter(dsrc, fsrc)
    /\ ~ChunksVerify(dcache, fcache)
    /\ Len(dsrc.header.index.data_chunks) = MaxSyncChunks
    /\ CachedEntries >= 1
    /\ fout = fsrc

----------------------------------------------------------------------------
(* The length of an emitted file.                                          *)

\* the calls of compress_to that returned Ok
CompressOks ==
    {i \in 1 .. Len(ecalls) : ecalls[i].op = "compress_to" /\ ecalls[i].err = "none"}

\* the writer holds what one successful compress_to, the last call, wrote
EmittedOnce ==
    /\ CompressOks = {Len(ecalls)}
    /\ enc.header # None

\* byte_size(Lead) + header_size + dict chunk length + the lengths of the
\* data chunks of the index
DeclaredLength(h) ==
    LeadByteSize(h.lead) + U64ToNat(VarintToU64(h.lead.header_size).val)
    + SumLengths(<<h.index.dict_chunk>> \o ChunksOf(h.index.data_chunks))

(* C11.  The file one successful compress_to wrote, after any sequence of  *)
(* prepare_chunks and compress_to calls, is as long as its header says:    *)
(* byte_size(Lead) + header_size + dict length + the sum of the lengths    *)
(* of the data chunks of its index.                                        *)
C11_EmittedLength ==
    EmittedOnce => Len(fout) = DeclaredLength(enc.header[1])

----------------------------------------------------------------------------
(* The header checksum the encoder stores.                                 *)

\* Lead ‖ Preface ‖ Index ‖ Signatures of the header, the header_checksum
\* field present and filled with zero bytes
ZeroedHeaderBytes(h) ==
    HeaderWriteTo([h EXCEPT !.lead.header_checksum = Zeros(HeaderChecksumLen)], FALSE)

(* C12.  The header_checksum of the header the encoder built is the        *)
(* SHA-256 of the header's bytes with the 32-byte header_checksum field    *)
(* present and zeroed, a string as long as the emitted header.             *)
C12_ChecksumOverZeroedField ==
    enc.header # None =>
        enc.header[1].lead.header_checksum = Sha256(ZeroedHeaderBytes(enc.header[1]))

----------------------------------------------------------------------------
(* The lead machine: Lead::from_reader on the bytes of a lead whose id and *)
(* checksum type are drawn from small sets.                                *)

\* the two accepted ids, and ids that differ from them in one byte
LeadIds ==
    {ZCHUNK_VERSION_1, ZCHUNK_DETACHED_VERSION_1, <<0, 90, 67, 75, 50>>,
     <<1, 90, 67, 75, 49>>}

\* the bytes of a lead with the id, the checksum type ct (a u64), the header
\* size 0 and a zero checksum
LeadFile(id, ct) ==
    id \o VarintWriteTo(VarintFrom(ct)) \o VarintWriteTo(VarintFrom(U64Zero))
    \o Zeros(HeaderChecksumLen)

LeadFiles == {LeadFile(id, ct) : id \in LeadIds, ct \in VarintInputs}

notLead ==
    <<vn, vbytes, vsrc, va, vb, vlast, cinput, ck, ck2, einput, enc, ecalls, fout,
      fsrc, fcache, dsrc, dcache, sync, dout, dref, overflow_checks>>

LeadInit ==
    /\ fsrc \in LeadFiles
    /\ einput = <<>>
    /\ enc = EncoderNew
    /\ ecalls = <<>>
    /\ fout = <<>>
    /\ fcache = <<>>
    /\ dsrc = NoDecoder
    /\ dcache = NoDecoder
    /\ sync = NoSync
    /\ dout = NoDecoder
    /\ dref = NoDecoder
    /\ fres = NoCall
    /\ overflow_checks = FALSE
    /\ VarintIdle
    /\ ChunkerIdle

\* Lead::from_reader on a reader of the file
LeadRead ==
    /\ fres = NoCall
    /\ fres' = [op |-> "Lead::from_reader", res |-> LeadFromReader(fsrc, 0)]
    /\ UNCHANGED notLead

SpecLead == LeadInit /\ [][LeadRead]_vars

(* C13.  Lead::from_reader returns InvalidLeaderID for every 5-byte id     *)
(* other than the two accepted ones, and InvalidChecksumType for every     *)
(* lead with an accepted id whose checksum type, as a 64-bit value, is     *)
(* neither 0 nor 1, the values of 256 and above included.                  *)
C13_LeadRejectsUnknown ==
    fres.op = "Lead::from_reader" =>
        \A id \in LeadIds, ct \in VarintInputs :
            fsrc = LeadFile(id, ct) =>
                IF id \notin {ZCHUNK_VERSION_1, ZCHUNK_DETACHED_VERSION_1}
                THEN ~fres.res.ok /\ fres.res.err = "InvalidLeaderID"
                ELSE ct \notin {U64FromNat(CHECKSUM_SHA1), U64FromNat(CHECKSUM_SHA256)}
                        => ~fres.res.ok /\ fres.res.err = "InvalidChecksumType"

----------------------------------------------------------------------------
(* Decoding and the checksums of the data chunks.                          *)

RECURSIVE FirstError(_, _, _)
\* the error of the first entry whose bytes get_chunk_data refuses, "none"
\* when every entry verifies
FirstError(d, file, data_chunks) ==
    LET checked(data) ==
            IF ~data.ok THEN data.err ELSE FirstError(d, file, Tail(data_chunks))
    IN  IF data_chunks = <<>> THEN "none"
        ELSE checked(GetChunkData(d, file, U32ToNat(Head(data_chunks).offset),
                                  Head(data_chunks).chunk))

RECURSIVE VerifiedPrefix(_, _, _)
\* what the entries before the first one that does not verify decode to
VerifiedPrefix(d, file, data_chunks) ==
    LET decoded(data) ==
            IF ~data.ok THEN <<>>
            ELSE ZstdDecode(data.val).val \o VerifiedPrefix(d, file, Tail(data_chunks))
    IN  IF data_chunks = <<>> THEN <<>>
        ELSE decoded(GetChunkData(d, file, U32ToNat(Head(data_chunks).offset),
                                  Head(data_chunks).chunk))

\* the file of decoder d holds its dict, and the first data chunk that does
\* not verify is there in full but hashes to another checksum
HoldsDamagedChunk(d, file) ==
    /\ d.state = "open"
    /\ GetChunkData(d, file, 0, d.header.index.dict_chunk).ok
    /\ FirstError(d, file, d.header.index.data_chunks) = "ChunkChecksumNotMatch"

(* C14.  decompress_to on a file in which the bytes of some data chunk do  *)
(* not hash to the checksum of its index entry fails with                  *)
(* ChunkChecksumNotMatch, and has written only what the chunks before it   *)
(* decode to.                                                              *)
C14_DecodeVerifiesChunks ==
    (dref.runs # <<>> /\ HoldsDamagedChunk(dref, fsrc))
        => /\ dref.runs[1].err = "ChunkChecksumNotMatch"
           /\ dref.runs[1].out = VerifiedPrefix(dref, fsrc, dref.header.index.data_chunks)

----------------------------------------------------------------------------
(* Where sync_to fetches the data chunks from.                             *)

\* the offsets of the cache's data chunks that are equal to the chunk on
\* (checksum, length, uncompressed_length)
CacheOffsets(chunk) ==
    {U32ToNat(dcache.header.index.data_chunks[j].offset) :
        j \in {j \in 1 .. Len(dcache.header.index.data_chunks) :
                /\ dcache.header.index.data_chunks[j].chunk.checksum = chunk.checksum
                /\ dcache.header.index.data_chunks[j].chunk.length = chunk.length
                /\ dcache.header.index.data_chunks[j].chunk.uncompressed_length
                    = chunk.uncompressed_length}}

(* C15.  In sync_to every data chunk of the source that is equal to a data *)
(* chunk of the cache on (checksum, length, uncompressed_length), whatever *)
(* the stream fields, is fetched from the cache at the offset of such a    *)
(* chunk, and every other one from the source at its own offset.           *)
C15_FetchedFromCacheWhenEqual ==
    sync.state = "done" =>
        \A i \in 1 .. Len(sync.fetched) :
            IF CacheOffsets(dsrc.header.index.data_chunks[i].chunk) # {}
            THEN /\ sync.fetched[i].from = "cache"
                 /\ sync.fetched[i].offset
                        \in CacheOffsets(dsrc.header.index.data_chunks[i].chunk)
            ELSE sync.fetched[i] =
                    [from |-> "source",
                     offset |-> U32ToNat(dsrc.header.index.data_chunks[i].offset)]

----------------------------------------------------------------------------
(* The checksum types of the index.                                        *)

RECURSIVE EntriesSummed(_, _, _, _)
\* the file holds the bytes of every entry, and they hash to the entry's
\* checksum under the checksum type
EntriesSummed(d, file, ctype, entries) ==
    LET summed(entry, length, buf) ==
            /\ length = 0 \/ (buf.ok /\ entry.chunk.checksum = FormatChecksum(ctype, buf.val))
            /\ EntriesSummed(d, file, ctype, Tail(entries))
        with_length(entry, length) ==
            summed(entry, length,
                   ReadExact(file, d.header_size + U32ToNat(entry.offset), length))
        with_entry(entry) ==
            with_length(entry, U64ToNat(VarintToU64(entry.chunk.length).val))
    IN  entries = <<>> \/ with_entry(Head(entries))

\* the index of the file of decoder d declares one of the four checksum
\* types and its dict and data chunks have the checksums of that type
WellSummed(d, file) ==
    /\ d.state \in {"open", "moved"}
    /\ U64ToNat(VarintToU64(d.header.index.checksum_type).val)
        \in {CHECKSUM_SHA1, CHECKSUM_SHA256, CHECKSUM_SHA512, CHECKSUM_SHA512_128}
    /\ EntriesSummed(d, file,
                     U64ToNat(VarintToU64(d.header.index.checksum_type).val),
                     <<[chunk |-> d.header.index.dict_chunk, offset |-> U32Zero]>>
                     \o d.header.index.data_chunks)

(* C16.  Decoder::new does not refuse a file for an index checksum type of *)
(* 0, 1, 2 or 3, and when source and cache hold chunks whose checksums are *)
(* right under the declared type, no fetch of sync_to fails with           *)
(* InvalidChecksumType.                                                    *)
C16_AcceptedTypesFetch ==
    /\ dsrc.state = "failed" => dsrc.err # "InvalidChecksumType"
    /\ (sync.state = "done" /\ WellSummed(dsrc, fsrc) /\ WellSummed(dcache, fcache))
            => sync.err # "InvalidChecksumType"

----------------------------------------------------------------------------
(* The index machine: Index::new on a list of chunks made by Chunk::new,   *)
(* and Index::from_reader on the bytes of an index, in a build with or     *)
(* without overflow checks.                                                *)

\* the most data chunks of an index here
MaxIndexChunks == 3

\* chunk lengths Chunk::new can take (a u32): 1, 2^31, 2^32 - 1
LengthsU32 == {U64OfBits({0}), U64OfBits({31}), U64OfBits(0 .. 31)}

\* chunk lengths a varint of a file can carry: 1, 2^31, 2^32 + 1
LengthsU64 == {U64OfBits({0}), U64OfBits({31}), U64OfBits({0, 32})}

\* Chunk::new([0; 16], length, 0), and the same chunk as from_reader builds
\* it for a length a u32 cannot hold
ChunkOfLength(length) ==
    [stream |-> None, checksum |-> Zeros(ChunkChecksumLen),
     length |-> VarintFrom(length), uncompressed_length |-> VarintFrom(U64Zero)]

RECURSIVE ChunksOfLengths(_)
ChunksOfLengths(lengths) ==
    IF lengths = <<>> THEN <<>>
    ELSE <<ChunkOfLength(Head(lengths))>> \o ChunksOfLengths(Tail(lengths))

RECURSIVE WriteEach(_)
\* the chunks as Chunk::write_to lays them out, one after the other
WriteEach(chunks) ==
    IF chunks = <<>> THEN <<>> ELSE ChunkWriteTo(Head(chunks)) \o WriteEach(Tail(chunks))

\* the bytes of an index that declares `count` chunks and holds a dict chunk
\* and data chunks of the lengths, its size field that of what it holds
IndexFile(count, dict_length, lengths) ==
    LET sized(body) == VarintWriteTo(VarintFrom(U64FromNat(Len(body)))) \o body
    IN  sized(VarintWriteTo(VarintFrom(U64FromNat(CHECKSUM_SHA512_128)))
              \o VarintWriteTo(VarintFrom(U64FromNat(count)))
              \o ChunkWriteTo(ChunkOfLength(dict_length))
              \o WriteEach(ChunksOfLengths(lengths)))

IndexFiles ==
    {IndexFile(count, dict_length, lengths) :
        count \in 0 .. (MaxIndexChunks + 1),
        dict_length \in {U64Zero} \cup LengthsU64,
        lengths \in SeqsUpTo(LengthsU64, MaxIndexChunks)}

\* PrefaceFlags of a preface without flags
NoFlags == [vint |-> VarintFrom(U64Zero), uint |-> U64Zero]

notIndex ==
    <<vn, vbytes, vsrc, va, vb, vlast, cinput, ck, ck2, einput, enc, ecalls, fout,
      fsrc, fcache, dsrc, dcache, sync, dout, dref, overflow_checks>>

\* a file to read an index from, or none to build one
IndexInit ==
    /\ fsrc \in IndexFiles \cup {<<>>}
    /\ overflow_checks \in BOOLEAN
    /\ einput = <<>>
    /\ enc = EncoderNew
    /\ ecalls = <<>>
    /\ fout = <<>>
    /\ fcache = <<>>
    /\ dsrc = NoDecoder
    /\ dcache = NoDecoder
    /\ sync = NoSync
    /\ dout = NoDecoder
    /\ dref = NoDecoder
    /\ fres = NoCall
    /\ VarintIdle
    /\ ChunkerIdle

\* Index::new on chunks made by Chunk::new
IndexBuild ==
    /\ fres = NoCall
    /\ fsrc = <<>>
    /\ \E lengths \in SeqsUpTo(LengthsU32, MaxIndexChunks) :
        fres' = [op |-> "Index::new", res |-> IndexNew(ChunksOfLengths(lengths))]
    /\ UNCHANGED notIndex

\* Index::from_reader on a reader of the file
IndexRead ==
    /\ fres = NoCall
    /\ fsrc # <<>>
    /\ fres' = [op |-> "Index::from_reader", res |-> IndexFromReader(fsrc, 0, NoFlags)]
    /\ UNCHANGED notIndex

IndexNext ==
    \/ IndexBuild
    \/ IndexRead

SpecIndex == IndexInit /\ [][IndexNext]_vars

\* a u64 or a u32 as a number of 10 bytes, which the sum of a few u64 fits
Wide(u) == u \o Zeros(10 - Len(u))

RECURSIVE SumBefore(_, _, _)
\* the exact sum of `start` and the lengths of the first k data chunks
SumBefore(start, data_chunks, k) ==
    IF k = 0 THEN Wide(start)
    ELSE AddBytes(SumBefore(start, data_chunks, k - 1),
                  Wide(VarintToU64(data_chunks[k].chunk.length).val), 1, 0)

\* an index was built or read
IndexMade == fres.op \in {"Index::new", "Index::from_reader"} /\ fres.res.ok

(* C17.  In every Index that Index::new builds or Index::from_reader       *)
(* accepts, the offset of data chunk i is the exact sum of the dict        *)
(* chunk's length and the lengths of the data chunks before it: no length  *)
(* is truncated and the sum does not wrap.                                 *)
C17_OffsetsAreExactSums ==
    IndexMade =>
        \A i \in 1 .. Len(fres.res.val.data_chunks) :
            Wide(fres.res.val.data_chunks[i].offset)
                = SumBefore(VarintToU64(fres.res.val.dict_chunk.length).val,
                            fres.res.val.data_chunks, i - 1)

\* the decoded chunks_count of the index is one more than its data chunks
CountsItsChunks(index) ==
    /\ VarintToU64(index.chunks_count).ok
    /\ VarintToU64(index.chunks_count).val = U64FromNat(1 + Len(index.data_chunks))

(* C18.  Index::from_reader, for every declared chunks_count, 0 included,  *)
(* returns: either an error, or an Index whose chunks_count is 1 + the     *)
(* number of data chunks it parsed; and an Index that Index::new builds    *)
(* has chunks_count = 1 + the number of its data chunks.                   *)
C18_ChunksCount ==
    /\ fres.op = "Index::from_reader" =>
        /\ fres.res.err # "panic"
        /\ fres.res.ok => CountsItsChunks(fres.res.val)
    /\ (fres.op = "Index::new" /\ fres.res.ok) => CountsItsChunks(fres.res.val)

----------------------------------------------------------------------------
(* The boundary byte, and the chunker after a read error.                  *)

\* the position p >= MIN of the first byte of the buffer after whose shift
\* into the window the hash has its masked bits 0; Len(buf) when there is none
FirstBoundary(buf) ==
    LET first_window_start == IF ChunkerMin > WindowSize THEN ChunkerMin - WindowSize ELSE 0
        first_window_end == IF ChunkerMin > WindowSize THEN ChunkerMin ELSE WindowSize
        from(window) ==
            ShiftWindow(buf, ChunkerMin, window, 0, WindowHash(window, 0, 0), 0)
    IN  IF Len(buf) < first_window_end THEN Len(buf)
        ELSE from(Slice(buf, first_window_start, first_window_end))

\* the buffer the last call of next on c cut: what it yielded and what it kept
LastFilled(c) == c.items[Len(c.items)].data \o c.buf

\* the last call of next on c yielded a chunk cut at a boundary of the hash
CutAtBoundary(c) ==
    /\ c.items # <<>>
    /\ c.items[Len(c.items)].kind = "chunk"
    /\ Len(LastFilled(c)) >= ChunkerMin
    /\ FirstBoundary(LastFilled(c)) < Len(LastFilled(c))

(* C19.  When the hash first has its masked bits 0 at the buffer position  *)
(* p >= MIN, next yields buf[0 .. p+1], the byte at p included, and keeps  *)
(* buf[p+1 ..] for the next call.                                          *)
C19_ChunkIncludesBoundaryByte ==
    CutAtBoundary(ck) =>
        /\ ck.items[Len(ck.items)].data
                = Slice(LastFilled(ck), 0, FirstBoundary(LastFilled(ck)) + 1)
        /\ ck.buf = Slice(LastFilled(ck), FirstBoundary(LastFilled(ck)) + 1,
                          Len(LastFilled(ck)))

(* C20.  After next has yielded an error item for a read failure other     *)
(* than EOF, every later call of next returns end-of-sequence: no chunk    *)
(* and no error follows an error item.                                     *)
C20_ExhaustedAfterError ==
    \A i \in 1 .. Len(ck.items) :
        ck.items[i].kind = "err" =>
            \A j \in (i + 1) .. Len(ck.items) : ck.items[j].kind = "end"

----------------------------------------------------------------------------
(* The chunker called again and again over a reader that never fails: it   *)
(* returns the bytes of a finite input, in reads of any size, and then 0   *)
(* bytes on every read.  The caller keeps calling next.                    *)

SpecChunkerLive == ChunkerInit /\ [][CNextRead]_vars /\ WF_vars(CNextRead)

\* this step is a call of next on ck
CalledNext == Len(ck'.items) = Len(ck.items) + 1

\* the buffer of the call after fill_buffer
FilledBuffer == ck.buf \o Slice(cinput, ck.pos, ck'.pos)

\* what the call returned
Returned == ck'.items[Len(ck'.items)]

\* a call with a non-empty buffer yields a chunk of at least one byte, which
\* it removes from the front of the buffer
RemovesBytes ==
    FilledBuffer # <<>> =>
        /\ Returned.kind = "chunk"
        /\ Len(Returned.data) >= 1
        /\ FilledBuffer = Returned.data \o ck'.buf

\* the call that empties the buffer yields all of it
EmitsRemainder ==
    (FilledBuffer # <<>> /\ ck'.buf = <<>>) => Returned.data = FilledBuffer

\* the call on an empty buffer at the end of the input returns None
EndsAfterRemainder ==
    (ck.buf = <<>> /\ ck.pos = Len(cinput)) =>
        /\ Returned.kind = "end"
        /\ ck'.buf = <<>>

(* C21.  Over a reader that delivers a finite input and then 0 bytes on    *)
(* every read, repeated calls of next eventually return end-of-sequence:   *)
(* each call with a non-empty buffer removes at least one byte, the call   *)
(* that empties the buffer emits the remainder, and the call after it, at  *)
(* the end of the input, returns end-of-sequence.                          *)
C21_EventuallyEnds ==
    /\ <>Ended(ck)
    /\ [][CalledNext => (RemovesBytes /\ EmitsRemainder /\ EndsAfterRemainder)]_vars

\* the whole of an input of the greatest length was cut into several chunks,
\* the last of them the remainder that emptied the buffer, and the call after
\* it returned end-of-sequence
C21_Witness ==
    /\ Ended(ck)
    /\ Len(cinput) = MaxInputLen
    /\ ck.pos = Len(cinput)
    /\ ck.buf = <<>>
    /\ Len(ck.items) >= 3
    /\ \A i \in 1 .. (Len(ck.items) - 1) : ck.items[i].kind = "chunk"
    /\ Len(ck.items[Len(ck.items) - 1].data) < ChunkerMin

----------------------------------------------------------------------------
(* decompress_to called again on the same decoder.                         *)

\* the file offset of the first data chunk: header_size + dict chunk length
DataStart(d) ==
    d.header_size + U64ToNat(VarintToU64(d.header.index.dict_chunk.length).val)

\* what decompress_to returns and writes when it reads the data chunks from
\* DataStart
RunFromDataStart(d, file) ==
    LET result(r) == [err |-> r.err, out |-> r.out]
    IN  result(DecompressChunks(file, DataStart(d), d.header.index.data_chunks, <<>>))

(* C22.  decompress_to reads the data chunks from the file offset          *)
(* header_size + dict chunk length whatever ran before on the decoder, an  *)
(* empty dict chunk included: every decompress_to of a decoder, the second *)
(* as the first, returns and writes what a read from that offset gives.    *)
C22_DecompressReadsFromDataStart ==
    (dout.state = "open" /\ GetUncompressedDict(dout, fout).ok) =>
        \A i \in 1 .. Len(dout.runs) : dout.runs[i] = RunFromDataStart(dout, fout)

====
